---- MODULE Spec2Model ----
(***************************************************************************)
(* A model of the GitHub-skills importer: the response recovery parser     *)
(* (parseAndMapRecommendations of the CLI, and the inline parser of main   *)
(* in src/app.ts), the evidence sampler, repository discovery and the two  *)
(* rate-limit checks.                                                      *)
(*                                                                         *)
(* Text is a sequence of characters.  A character is a TLA+ string; a few  *)
(* lexemes whose inner letters no repair step looks at (a number, the word *)
(* name, the fence of three backticks) are one character each; the fence  *)
(* is written ~~~.                                                         *)
(***************************************************************************)
EXTENDS Integers, Sequences, FiniteSets, TLC

----------------------------------------------------------------------------
(* Characters *)

Q == "\""
FENCE == "~~~"
WS == " "

\* The number lexemes of the model, with their values in tenths.
NumTokens == {"150", "90", "50", "40", "39.5", "39.4", "10", "-5", "0"}

NumValue(tok) ==
    CASE tok = "150" -> 1500
      [] tok = "90" -> 900
      [] tok = "50" -> 500
      [] tok = "40" -> 400
      [] tok = "39.5" -> 395
      [] tok = "39.4" -> 394
      [] tok = "10" -> 100
      [] tok = "-5" -> -50
      [] tok = "0" -> 0

IsWs(c) == c = WS

\* String.prototype.toLowerCase, character by character.
LowerChar(c) ==
    CASE c = "A" -> "a"
      [] c = "B" -> "b"
      [] c = "Z" -> "z"
      [] OTHER -> c

toLowerCase(s) == [i \in 1..Len(s) |-> LowerChar(s[i])]

\* String.prototype.indexOf / lastIndexOf; 0 stands for JavaScript's -1 and
\* positions are 1-based.
indexOf(s, c) ==
    IF \E i \in 1..Len(s) : s[i] = c
    THEN CHOOSE i \in 1..Len(s) : s[i] = c /\ \A j \in 1..(i - 1) : s[j] # c
    ELSE 0

lastIndexOf(s, c) ==
    IF \E i \in 1..Len(s) : s[i] = c
    THEN CHOOSE i \in 1..Len(s) : s[i] = c /\ \A j \in (i + 1)..Len(s) : s[j] # c
    ELSE 0

\* lastIndexOf(c, from): the last occurrence at or before position from.
lastIndexOfFrom(s, c, from) ==
    IF \E i \in 1..from : i <= Len(s) /\ s[i] = c
    THEN CHOOSE i \in 1..from :
            /\ i <= Len(s) /\ s[i] = c
            /\ \A j \in (i + 1)..from : j > Len(s) \/ s[j] # c
    ELSE 0

endsWith(s, c) == Len(s) > 0 /\ s[Len(s)] = c

\* The first position at or after i that holds no whitespace (Len(s)+1 if none).
RECURSIVE SkipWs(_, _)
SkipWs(s, i) ==
    IF i <= Len(s) /\ IsWs(s[i]) THEN SkipWs(s, i + 1) ELSE i

\* The last position at or before i that holds no whitespace (0 if none).
RECURSIVE SkipWsBack(_, _)
SkipWsBack(s, i) ==
    IF i >= 1 /\ IsWs(s[i]) THEN SkipWsBack(s, i - 1) ELSE i

\* String.prototype.trim
trim(s) ==
    LET a == SkipWs(s, 1)
        b == SkipWsBack(s, Len(s))
    IN IF a > b THEN <<>> ELSE SubSeq(s, a, b)

----------------------------------------------------------------------------
(* JSON.parse.  A value is a record tagged by t:                           *)
(*   num (v: tenths), str (v: characters), null, arr (v: values),          *)
(*   obj (v: members <<key, value>> in text order).                        *)

NullVal == [t |-> "null", v |-> 0]
Undefined == [t |-> "undefined", v |-> 0]
NumVal(n) == [t |-> "num", v |-> n]
StrVal(s) == [t |-> "str", v |-> s]
ArrVal(xs) == [t |-> "arr", v |-> xs]
ObjVal(ms) == [t |-> "obj", v |-> ms]

ParseFail == [ok |-> FALSE, val |-> NullVal, pos |-> 0]
ParseOk(val, pos) == [ok |-> TRUE, val |-> val, pos |-> pos]

\* A string literal starting at position i (which holds the opening quote).
ParseString(s, i) ==
    IF \E j \in (i + 1)..Len(s) : s[j] = Q
    THEN LET j == CHOOSE k \in (i + 1)..Len(s) :
                      s[k] = Q /\ \A m \in (i + 1)..(k - 1) : s[m] # Q
         IN ParseOk(StrVal(SubSeq(s, i + 1, j - 1)), j + 1)
    ELSE ParseFail

RECURSIVE ParseValue(_, _)
RECURSIVE ParseElements(_, _, _)
RECURSIVE ParseMembers(_, _, _)

\* The elements of an array after its opening bracket; i is the start of the
\* next element, acc the elements read so far.
ParseElements(s, i, acc) ==
    LET e == ParseValue(s, i)
    IN IF ~e.ok THEN ParseFail
       ELSE IF e.pos > Len(s) THEN ParseFail
       ELSE IF s[e.pos] = "]" THEN ParseOk(ArrVal(Append(acc, e.val)), e.pos + 1)
       ELSE IF s[e.pos] = "," THEN ParseElements(s, e.pos + 1, Append(acc, e.val))
       ELSE ParseFail

\* The members of an object after its opening brace.
ParseMembers(s, i, acc) ==
    LET k == SkipWs(s, i)
    IN IF k > Len(s) \/ s[k] # Q THEN ParseFail
       ELSE LET key == ParseString(s, k)
                c == IF key.ok THEN SkipWs(s, key.pos) ELSE 0
            IN IF ~key.ok \/ c > Len(s) \/ s[c] # ":" THEN ParseFail
               ELSE LET e == ParseValue(s, c + 1)
                        m == <<key.val.v, e.val>>
                    IN IF ~e.ok THEN ParseFail
                       ELSE IF e.pos > Len(s) THEN ParseFail
                       ELSE IF s[e.pos] = "}"
                            THEN ParseOk(ObjVal(Append(acc, m)), e.pos + 1)
                       ELSE IF s[e.pos] = ","
                            THEN ParseMembers(s, e.pos + 1, Append(acc, m))
                       ELSE ParseFail

\* One value with the whitespace around it; pos is the position after the
\* whitespace that follows the value.
ParseValue(s, i) ==
    LET k == SkipWs(s, i)
        After(r) == IF r.ok THEN ParseOk(r.val, SkipWs(s, r.pos)) ELSE ParseFail
    IN IF k > Len(s) THEN ParseFail
       ELSE IF s[k] = "["
            THEN LET n == SkipWs(s, k + 1)
                 IN IF n <= Len(s) /\ s[n] = "]"
                    THEN After(ParseOk(ArrVal(<<>>), n + 1))
                    ELSE After(ParseElements(s, k + 1, <<>>))
       ELSE IF s[k] = "{"
            THEN LET n == SkipWs(s, k + 1)
                 IN IF n <= Len(s) /\ s[n] = "}"
                    THEN After(ParseOk(ObjVal(<<>>), n + 1))
                    ELSE After(ParseMembers(s, k + 1, <<>>))
       ELSE IF s[k] = Q THEN After(ParseString(s, k))
       ELSE IF s[k] \in NumTokens THEN After(ParseOk(NumVal(NumValue(s[k])), k + 1))
       ELSE IF s[k] = "null" THEN After(ParseOk(NullVal, k + 1))
       ELSE ParseFail

\* JSON.parse(text): the whole text must be one value; ok = FALSE stands for
\* the SyntaxError.
JSONparse(s) ==
    LET r == ParseValue(s, 1)
    IN IF r.ok /\ r.pos = Len(s) + 1 THEN r ELSE ParseFail

----------------------------------------------------------------------------
(* The repair steps of parseAndMapRecommendations *)

\* cleaned.replace(/^```json?\s*/i, ""): a fence followed by jso, an optional
\* n and whitespace, at the start of the text.
StripFenceStart(s) ==
    IF Len(s) >= 2 /\ s[1] = FENCE /\ s[2] = "jso"
    THEN LET a == IF Len(s) >= 3 /\ s[3] = "n" THEN 4 ELSE 3
         IN SubSeq(s, SkipWs(s, a), Len(s))
    ELSE s

\* .replace(/\s*```$/i, ""): a fence at the end of the text, with the
\* whitespace before it.
StripFenceEnd(s) ==
    IF endsWith(s, FENCE) THEN SubSeq(s, 1, SkipWsBack(s, Len(s) - 1)) ELSE s

\* Step 1: remove common markdown/code fences.
Step1(s) == StripFenceEnd(StripFenceStart(s))

\* Step 2: keep the part between the first [ and the last ].
Step2(s) ==
    LET firstBracket == indexOf(s, "[")
        lastBracket == lastIndexOf(s, "]")
    IN IF firstBracket # 0 /\ lastBracket # 0 /\ lastBracket > firstBracket
       THEN SubSeq(s, firstBracket, lastBracket)
       ELSE s

\* cleaned.replace(/,\s*]/g, "]") from position i on: every comma that is
\* followed, after optional whitespace, by ] is removed with that whitespace.
RECURSIVE ReplaceCommaBracket(_, _)
ReplaceCommaBracket(s, i) ==
    IF i > Len(s) THEN <<>>
    ELSE LET n == SkipWs(s, i + 1)
         IN IF s[i] = "," /\ n <= Len(s) /\ s[n] = "]"
            THEN <<"]">> \o ReplaceCommaBracket(s, n + 1)
            ELSE <<s[i]>> \o ReplaceCommaBracket(s, i + 1)

KeepTrailingCommas(s) == s

\* Step 3: remove trailing commas before closing ].
Step3(s) == ReplaceCommaBracket(s, 1)

\* Step 4: if the array is unclosed, cut after the last } and close it.
Step4(s) ==
    IF ~endsWith(s, "]")
    THEN LET lastCloseBrace == lastIndexOf(s, "}")
         IN IF lastCloseBrace # 0
            THEN Append(SubSeq(s, 1, lastCloseBrace), "]")
            ELSE Append(s, "]")
    ELSE s

\* Step 5: remove anything after the final ].
Step5(s) ==
    LET finalClose == lastIndexOf(s, "]")
    IN IF finalClose # 0 THEN SubSeq(s, 1, finalClose) ELSE s

\* The text after raw.trim() and after each of the five steps, in order.
RepairStages(raw) ==
    LET c0 == trim(raw)
        c1 == Step1(c0)
        c2 == Step2(c1)
        c3 == Step3(c2)
        c4 == Step4(c3)
        c5 == Step5(c4)
    IN <<c0, c1, c2, c3, c4, c5>>

Repair(raw) == RepairStages(raw)[6]

----------------------------------------------------------------------------
(* Validation of the parsed entries and mapping to the Skill catalog *)

ScoreMin == 0
ScoreMax == 100
ScoreFloor == 40

\* item.key: the last member of that name, undefined when there is none or
\* when the item is no object.
Get(item, key) ==
    IF item.t = "obj" /\ \E i \in 1..Len(item.v) : item.v[i][1] = <<key>>
    THEN LET i == CHOOSE k \in 1..Len(item.v) :
                      /\ item.v[k][1] = <<key>>
                      /\ \A m \in (k + 1)..Len(item.v) : item.v[m][1] # <<key>>
         IN item.v[i][2]
    ELSE Undefined

IsNullish(x) == x.t \in {"null", "undefined"}

\* Math.round of a number given in tenths: the nearest integer, a half
\* rounded up.
MathRound(tenths) == (tenths + 5) \div 10

Max(a, b) == IF a >= b THEN a ELSE b
Min(a, b) == IF a <= b THEN a ELSE b

ClampWithoutCeiling(tenths) == Max(ScoreMin, MathRound(tenths))

\* Math.max(0, Math.min(100, Math.round(item.score)))
ClampScore(tenths) == Max(ScoreMin, Min(ScoreMax, MathRound(tenths)))

\* The filter of line 762: a string name or a string skill, a numeric score
\* and a string reason.
IsValidItem(item) ==
    /\ item.t = "obj"
    /\ (Get(item, "name").t = "str" \/ Get(item, "skill").t = "str")
    /\ Get(item, "score").t = "num"
    /\ Get(item, "reason").t = "str"

\* allSkills.find(s => s.name.trim().toLowerCase() === cleanName.toLowerCase()):
\* the position of the first match, 0 when there is none.
FirstSkillFallback(allSkills, cleanName) ==
    LET hit(i) == toLowerCase(trim(allSkills[i].name)) = toLowerCase(cleanName)
    IN IF \E i \in 1..Len(allSkills) : hit(i)
       THEN CHOOSE i \in 1..Len(allSkills) : hit(i) /\ \A j \in 1..(i - 1) : ~hit(j)
       ELSE IF Len(allSkills) > 0 THEN 1 ELSE 0

FindSkill(allSkills, cleanName) ==
    LET hit(i) == toLowerCase(trim(allSkills[i].name)) = toLowerCase(cleanName)
    IN IF \E i \in 1..Len(allSkills) : hit(i)
       THEN CHOOSE i \in 1..Len(allSkills) : hit(i) /\ \A j \in 1..(i - 1) : ~hit(j)
       ELSE 0

NoReason == <<"No reason provided">>

\* The Recommendation of lines 782-787.
MakeRecommendation(skill, item) ==
    LET reason == trim(Get(item, "reason").v)
    IN [id |-> skill.id,
        name |-> skill.name,
        score |-> ClampScore(Get(item, "score").v),
        info |-> IF reason = <<>> THEN NoReason ELSE reason]

\* The .map callback of lines 769-789 applied to items[i..]: built holds the
\* Recommendations of the entries that resolved, proposed the name and the
\* score each of them was built from, warned the names logged as rejected.  (item.name ?? item.skill)?.trim() throws a TypeError when the
\* value is neither nullish nor a string.
RECURSIVE MapItems(_, _, _, _)
MapItems(items, allSkills, i, acc) ==
    IF i > Len(items) THEN acc
    ELSE LET item == items[i]
             picked == IF IsNullish(Get(item, "name"))
                       THEN Get(item, "skill") ELSE Get(item, "name")
         IN IF IsNullish(picked) THEN MapItems(items, allSkills, i + 1, acc)
            ELSE IF picked.t # "str"
                 THEN [acc EXCEPT !.threw = TRUE, !.error = "TypeError"]
            ELSE LET cleanName == trim(picked.v)
                     k == FindSkill(allSkills, cleanName)
                 IN IF k = 0
                    THEN MapItems(items, allSkills, i + 1,
                           IF cleanName # <<>>
                           THEN [acc EXCEPT !.warned = Append(@, cleanName)]
                           ELSE acc)
                    ELSE MapItems(items, allSkills, i + 1,
                           [acc EXCEPT !.built =
                               Append(@, MakeRecommendation(allSkills[k], item)),
                                       !.proposed = Append(@,
                                           [name |-> picked.v,
                                            score |-> Get(item, "score").v])])

NoOutcome ==
    [threw |-> FALSE, error |-> "", parsed |-> FALSE, recs |-> <<>>,
     built |-> <<>>, proposed |-> <<>>, warned |-> <<>>]

StrictlyAboveFloor(r) == r.score > ScoreFloor

\* The filter of line 790, applied to the Recommendation as built, that is
\* to the rounded and clamped score.
AboveFloor(r) == r.score >= ScoreFloor

\* recommendations.sort((a, b) => b.score - a.score): the sort is stable, so
\* a Recommendation goes behind those of a higher score and behind the
\* earlier ones of its own score.
SortByScore(recs) ==
    LET Before(j, i) == \/ recs[j].score > recs[i].score
                        \/ recs[j].score = recs[i].score /\ j < i
        Place(i) == 1 + Cardinality({ j \in 1..Len(recs) : Before(j, i) })
    IN [k \in 1..Len(recs) |-> recs[CHOOSE i \in 1..Len(recs) : Place(i) = k]]

\* The try block of lines 755-796.
TryParseAndMap(cleaned, allSkills) ==
    LET p == JSONparse(cleaned)
    IN IF ~p.ok THEN [NoOutcome EXCEPT !.threw = TRUE, !.error = "SyntaxError"]
       ELSE IF p.val.t # "arr" THEN [NoOutcome EXCEPT !.threw = TRUE, !.error = "Error"]
       ELSE LET m == MapItems(SelectSeq(p.val.v, IsValidItem), allSkills, 1,
                              [NoOutcome EXCEPT !.parsed = TRUE])
            IN IF m.threw THEN m
               ELSE [m EXCEPT !.recs = SelectSeq(m.built, AboveFloor)]

\* The catch block of lines 797-804: whatever the try block threw, the empty
\* list is returned.
NoCatch(outcome) == outcome

Catch(outcome) ==
    IF outcome.threw
    THEN [outcome EXCEPT !.threw = FALSE, !.recs = <<>>, !.built = <<>>,
                         !.proposed = <<>>]
    ELSE outcome

parseAndMapRecommendations(raw, allSkills) ==
    Catch(TryParseAndMap(Repair(raw), allSkills))

----------------------------------------------------------------------------
(* The inline parser and the mapping loop of main in src/app.ts *)

\* cleaned.replace(/,\s*]$/, "]"): only the comma before a ] that ends the text.
MainFixTrailingComma(s) ==
    LET c == IF endsWith(s, "]") THEN SkipWsBack(s, Len(s) - 1) ELSE 0
    IN IF c >= 1 /\ s[c] = "," THEN Append(SubSeq(s, 1, c - 1), "]") ELSE s

\* "Try to close incomplete last object", lines 602-613.
MainCloseObject(s) ==
    IF ~endsWith(s, "]")
    THEN LET lastObjStart == lastIndexOf(s, "{")
         IN IF lastObjStart # 0
            THEN LET prevClose == lastIndexOfFrom(s, "}", lastObjStart)
                 IN IF prevClose # 0
                    THEN SubSeq(s, 1, prevClose) \o <<"}", "]">>
                    ELSE s \o <<Q, "}", "]">>
            ELSE s
    ELSE s

\* The text after llmResponse.trim() and after each repair of lines 589-613.
MainRepairStages(raw) ==
    LET c0 == trim(raw)
        c1 == Step1(c0)
        c2 == Step2(c1)
        c3 == MainFixTrailingComma(c2)
        c4 == MainCloseObject(c3)
    IN <<c0, c1, c2, c3, c4>>

\* JavaScript truthiness of a parsed value.
Truthy(x) ==
    CASE x.t = "str" -> x.v # <<>>
      [] x.t = "num" -> x.v # 0
      [] x.t \in {"arr", "obj"} -> TRUE
      [] OTHER -> FALSE

\* The filter of line 619: item?.name && typeof item.score === "number" && item?.reason
MainIsValidItem(item) ==
    /\ Truthy(Get(item, "name"))
    /\ Get(item, "score").t = "num"
    /\ Truthy(Get(item, "reason"))

\* allSkills.find(s => s.name.toLowerCase() === rec.name.toLowerCase())
MainFindSkill(allSkills, name) ==
    LET hit(i) == toLowerCase(allSkills[i].name) = toLowerCase(name)
    IN IF \E i \in 1..Len(allSkills) : hit(i)
       THEN CHOOSE i \in 1..Len(allSkills) : hit(i) /\ \A j \in 1..(i - 1) : ~hit(j)
       ELSE 0

\* The loop of lines 633-645 over aiRecs[i..].  rec.name.toLowerCase() throws
\* a TypeError when the name is not a string, and nothing catches it.  The
\* score is the number as parsed (kept in tenths), the info the reason as parsed.
RECURSIVE MainMapRecs(_, _, _, _)
MainMapRecs(aiRecs, allSkills, i, acc) ==
    IF i > Len(aiRecs) THEN acc
    ELSE LET rec == aiRecs[i]
             name == Get(rec, "name")
         IN IF name.t # "str"
            THEN [acc EXCEPT !.threw = TRUE, !.error = "TypeError"]
            ELSE LET k == MainFindSkill(allSkills, name.v)
                 IN IF k = 0 THEN MainMapRecs(aiRecs, allSkills, i + 1, acc)
                    ELSE MainMapRecs(aiRecs, allSkills, i + 1,
                           [acc EXCEPT !.built =
                               Append(@, [id |-> allSkills[k].id,
                                          name |-> allSkills[k].name,
                                          score |-> Get(rec, "score").v,
                                          info |-> Get(rec, "reason")]),
                                       !.proposed = Append(@,
                                           [name |-> name.v,
                                            score |-> Get(rec, "score").v])])

\* Lines 615-645: parse (a failure leaves aiRecs empty), filter, map.
MainParseAndMap(cleaned, allSkills) ==
    LET p == JSONparse(cleaned)
        aiRecs == IF p.ok /\ p.val.t = "arr"
                  THEN SelectSeq(p.val.v, MainIsValidItem) ELSE <<>>
        m == MainMapRecs(aiRecs, allSkills, 1, [NoOutcome EXCEPT !.parsed = p.ok])
    IN IF m.threw THEN m ELSE [m EXCEPT !.recs = m.built]

----------------------------------------------------------------------------
(* The model's response texts and Skill catalogs *)

MaxEntries == 2

Member(key, val) == <<<<key>>, val>>

Entry(name, score, reason) ==
    ObjVal(<<Member("name", name), Member("score", score), Member("reason", reason)>>)

\* The entries a response may hold: a matching name in another letter case, a
\* score above 100, fractional and negative scores, a name no Skill has, a
\* name with surrounding whitespace, the skill key, a name that is a number,
\* a missing score, a reason that holds ",]", a blank name, and entries that
\* are no objects.
EntryPool ==
    << Entry(StrVal(<<"A">>), NumVal(900), StrVal(<<"x">>)),
       Entry(StrVal(<<"a">>), NumVal(1500), StrVal(<<"x">>)),
       Entry(StrVal(<<"a">>), NumVal(395), StrVal(<<"x">>)),
       Entry(StrVal(<<"b">>), NumVal(394), StrVal(<<WS>>)),
       Entry(StrVal(<<"a">>), NumVal(-50), StrVal(<<"x">>)),
       Entry(StrVal(<<"z">>), NumVal(900), StrVal(<<"x">>)),
       Entry(StrVal(<<WS, "a">>), NumVal(500), StrVal(<<"x">>)),
       ObjVal(<<Member("skill", StrVal(<<"b">>)), Member("score", NumVal(500)),
                Member("reason", StrVal(<<"x">>))>>),
       ObjVal(<<Member("name", NumVal(500)), Member("skill", StrVal(<<"a">>)),
                Member("score", NumVal(500)), Member("reason", StrVal(<<"x">>))>>),
       ObjVal(<<Member("name", StrVal(<<"a">>)), Member("reason", StrVal(<<"x">>))>>),
       Entry(StrVal(<<"a">>), NumVal(500), StrVal(<<"x", ",", "]">>)),
       Entry(StrVal(<<WS>>), NumVal(500), StrVal(<<"x">>)),
       NumVal(500),
       NullVal >>

\* The Skill catalogs: one Skill; names that differ in letter case only; a
\* name with trailing whitespace; no Skill at all.
Catalogs ==
    << <<[id |-> "42", name |-> <<"a">>]>>,
       <<[id |-> "1", name |-> <<"A">>], [id |-> "2", name |-> <<"a">>],
         [id |-> "3", name |-> <<"b">>]>>,
       <<[id |-> "7", name |-> <<"a", WS>>], [id |-> "8", name |-> <<"B">>]>>,
       <<>> >>

NumToken(v) == CHOOSE tok \in NumTokens : NumValue(tok) = v

RECURSIVE Serialize(_)
RECURSIVE SerializeAll(_, _)

\* The elements xs[i..] written one after the other, a comma between two;
\* members says that they are the members of an object.
SerializeAll(xs, members) ==
    IF xs = <<>> THEN <<>>
    ELSE LET one == IF members
                    THEN <<Q>> \o xs[1][1] \o <<Q, ":">> \o Serialize(xs[1][2])
                    ELSE Serialize(xs[1])
         IN IF Len(xs) = 1 THEN one
            ELSE one \o <<",">> \o SerializeAll(Tail(xs), members)

\* A value as serialized text without whitespace.
Serialize(x) ==
    CASE x.t = "num" -> <<NumToken(x.v)>>
      [] x.t = "str" -> <<Q>> \o x.v \o <<Q>>
      [] x.t = "arr" -> <<"[">> \o SerializeAll(x.v, FALSE) \o <<"]">>
      [] x.t = "obj" -> <<"{">> \o SerializeAll(x.v, TRUE) \o <<"}">>
      [] OTHER -> <<"null">>

Variants == {"plain", "fenced", "prose", "comma", "padded"}

\* A serialized array as the model may send it: as it is, in a json fence,
\* inside prose, with a comma before the final bracket, inside whitespace.
Variation(variant, text) ==
    CASE variant = "fenced" -> <<FENCE, "jso", "n", WS>> \o text \o <<WS, FENCE>>
      [] variant = "prose" -> <<"x", ",", WS>> \o text \o <<WS, "x", ",">>
      [] variant = "comma" -> SubSeq(text, 1, Len(text) - 1) \o <<",", "]">>
      [] variant = "padded" -> <<WS>> \o text \o <<WS, WS>>
      [] OTHER -> text

\* The entries a response may be cut off in: a plain one, and one whose
\* reason holds a closing brace.
CutPool ==
    << Entry(StrVal(<<"A">>), NumVal(900), StrVal(<<"x">>)),
       Entry(StrVal(<<"a">>), NumVal(500), StrVal(<<"x", "}", "x">>)) >>

\* A serialized array that stops after the first k lexemes of its last
\* entry: the output of a model that ran out of tokens.
CutOff(entries, k) ==
    LET whole == Serialize(ArrVal(entries))
        last == Serialize(entries[Len(entries)])
    IN SubSeq(whole, 1, Len(whole) - 1 - Len(last) + k)

\* Texts that hold no array: empty, prose only, brackets in the wrong order,
\* an object, an array that stays invalid after the repairs.
OtherTexts ==
    { <<>>, <<"x", WS, "x">>, <<"]", "x", "[">>, <<"{", "}">>,
      <<"[", "{", "x", "}", "]">>, <<Q, "x", "]", Q>>, <<"[", "[", "50">>,
      <<FENCE>>, <<"[", "50", ",", ",", "]">> }

----------------------------------------------------------------------------
(* getFreshEvidenceSample.  A link is the sequence of the segments between   *)
(* the slashes of its URL, from the host on.                                 *)

MaxPool == 4
MaxSample == 3

PullLink(repo, n) == <<"github.com", "o", repo, "pull", n>>
CommitLink(repo, sha) == <<"github.com", "o", repo, "commit", sha>>

\* The links an evidence list is made of: pull requests and commits of two
\* repositories.
LinkPool ==
    { PullLink("r1", "1"), CommitLink("r1", "a"), CommitLink("r1", "b"),
      PullLink("r2", "2"), CommitLink("r2", "c") }

\* link.includes("/pull/"), link.includes("/commit/"): a segment of that name
\* with a slash before and after it.
Includes(link, word) == \E i \in 2..(Len(link) - 1) : link[i] = word

\* link.match(/github\.com\/([^/]+\/[^/]+)(?:\/commit|\/pull)/): the repository
\* of the link, "unknown" when the link has not that form.
RepoOf(link) ==
    LET hit(i) == /\ link[i] = "github.com"
                  /\ i + 3 <= Len(link)
                  /\ link[i + 3] \in {"commit", "pull"}
    IN IF \E i \in 1..Len(link) : hit(i)
       THEN LET i == CHOOSE k \in 1..Len(link) : hit(k) /\ \A j \in 1..(k - 1) : ~hit(j)
            IN <<link[i + 1], link[i + 2]>>
       ELSE <<"unknown">>

Contains(list, x) == \E i \in 1..Len(list) : list[i] = x

\* The keys of byRepo in insertion order: the repositories of allLinks[1..n] in
\* the order of their first link.
RECURSIVE RepoOrder(_, _)
RepoOrder(allLinks, n) ==
    IF n = 0 THEN <<>>
    ELSE LET before == RepoOrder(allLinks, n - 1)
             repo == RepoOf(allLinks[n])
         IN IF Contains(before, repo) THEN before ELSE Append(before, repo)

\* byRepo.get(repo): the links of one repository in list order.
LinksOf(allLinks, repo) ==
    LET OfRepo(link) == RepoOf(link) = repo
    IN SelectSeq(allLinks, OfRepo)

\* links.find(pred): the first link with the property, <<>> for undefined.
FindLink(links, Pred(_)) ==
    IF \E i \in 1..Len(links) : Pred(links[i])
    THEN links[CHOOSE i \in 1..Len(links) :
                   Pred(links[i]) /\ \A j \in 1..(i - 1) : ~Pred(links[j])]
    ELSE <<>>

\* Priority 1, lines 585-588, over the repositories repos[g..].
RECURSIVE PickPulls(_, _, _, _, _)
PickPulls(allLinks, repos, g, maxLinks, selected) ==
    IF g > Len(repos) THEN selected
    ELSE LET IsPull(l) == Includes(l, "pull")
             prLink == FindLink(LinksOf(allLinks, repos[g]), IsPull)
         IN PickPulls(allLinks, repos, g + 1, maxLinks,
                      IF prLink # <<>> /\ Len(selected) < maxLinks
                      THEN Append(selected, prLink) ELSE selected)

\* Priority 2, lines 591-596, over the repositories repos[g..].
RECURSIVE PickCommits(_, _, _, _, _)
PickCommits(allLinks, repos, g, maxLinks, selected) ==
    IF g > Len(repos) THEN selected
    ELSE LET IsFreshCommit(l) == Includes(l, "commit") /\ ~Contains(selected, l)
             commitLink == FindLink(LinksOf(allLinks, repos[g]), IsFreshCommit)
         IN PickCommits(allLinks, repos, g + 1, maxLinks,
                        IF commitLink # <<>> /\ Len(selected) < maxLinks
                        THEN Append(selected, commitLink) ELSE selected)

\* The selection of lines 570-596.
PriorityPicks(allLinks, maxLinks) ==
    LET repos == RepoOrder(allLinks, Len(allLinks))
    IN PickCommits(allLinks, repos, 1, maxLinks,
                   PickPulls(allLinks, repos, 1, maxLinks, <<>>))

WholeListAgain(allLinks, selected) == allLinks

\* allLinks.filter((l) => !selected.includes(l)), line 599.
Leftover(allLinks, selected) ==
    LET NotSelected(l) == ~Contains(selected, l)
    IN SelectSeq(allLinks, NotSelected)

NL == <<"\n">>

\* links.join("\n"): the links with a line break between two of them.
RECURSIVE JoinLines(_)
JoinLines(links) ==
    IF Len(links) <= 1 THEN links
    ELSE <<links[1], NL>> \o JoinLines(Tail(links))

\* array.splice(idx, 1), positions from 1.
RemoveAt(list, idx) == SubSeq(list, 1, idx - 1) \o SubSeq(list, idx + 1, Len(list))

Swap(list, i, j) == [list EXCEPT ![i] = list[j], ![j] = list[i]]

SampleBelowPool(allLinks, maxLinks) == Len(allLinks) < maxLinks

\* The test of line 566: the whole pool is returned.
WholePool(allLinks, maxLinks) == Len(allLinks) <= maxLinks

----------------------------------------------------------------------------
(* The rate-limit checks.  Time is counted in seconds. *)

CoreLowWater == 10
SearchLowWater == 5
SafetyMargin == 2

\* A response header: absent, or present with a number.
Absent == [present |-> FALSE, value |-> 0]
Header(n) == [present |-> TRUE, value |-> n]

\* parseInt(res.headers[name] || "0", 10)
HeaderInt(h) == IF h.present THEN h.value ELSE 0

WaitUntilResetOnly(reset, now) ==
    IF reset - now > 0 THEN reset - now ELSE 0

\* reset * 1000 - Date.now() + 2000, and the sleep only if it is positive.
WaitUntilReset(reset, now) ==
    LET wait == reset - now + SafetyMargin
    IN IF wait > 0 THEN wait ELSE 0

InterceptorWaitAtMark(remaining, reset, now) ==
    IF remaining <= CoreLowWater /\ reset > 0 THEN WaitUntilReset(reset, now) ELSE 0

\* The response interceptor, lines 209-217: the time it sleeps.
InterceptorWait(remaining, reset, now) ==
    IF remaining < CoreLowWater /\ reset > 0 THEN WaitUntilReset(reset, now) ELSE 0

\* checkSearchRateLimit, src/app.ts lines 162-172: the time it sleeps.
SearchWait(remaining, reset, now) ==
    IF remaining < SearchLowWater /\ reset # 0 THEN WaitUntilReset(reset, now) ELSE 0

----------------------------------------------------------------------------
(* Repository discovery *)

PageSize == 100
HardCap == 1000
MaxListPages == 2
MaxPageItems == 2

ApiPrefix == "https://api.github.com/repos/"

\* The identifiers the source knows; two of them differ in letter case only.
RepoIds == { <<"a", "/", "b">>, <<"A", "/", "b">> }

ListingItem(id) == [full_name |-> id]
CommitItem(id) == [repository |-> [full_name |-> id]]
PullItem(id) == [repository_url |-> <<ApiPrefix>> \o id]

\* The pages of identifiers the source may return, the empty page among them.
IdPages == UNION { [1..n -> RepoIds] : n \in 0..MaxPageItems }

\* The errors a request may end with: the result window exceeded (422 with
\* "Only the first 1000 ..."), another 422, a server error, no response.
RequestErrors ==
    { [status |-> 422, window |-> TRUE], [status |-> 422, window |-> FALSE],
      [status |-> 500, window |-> FALSE], [status |-> 0, window |-> FALSE] }

\* The rate-limit headers of a response during discovery: ample quota, low
\* quota with a reset ahead, no headers.
DiscoveryHeaders ==
    { [remaining |-> Header(50), reset |-> Header(3)],
      [remaining |-> Header(4), reset |-> Header(3)],
      [remaining |-> Absent, reset |-> Absent] }

\* item.repository_url.replace("https://api.github.com/repos/", ""): the first
\* occurrence of the prefix is taken out.
StripApiPrefix(url) ==
    IF \E i \in 1..Len(url) : url[i] = ApiPrefix
    THEN LET i == CHOOSE k \in 1..Len(url) :
                      url[k] = ApiPrefix /\ \A j \in 1..(k - 1) : url[j] # ApiPrefix
         IN SubSeq(url, 1, i - 1) \o SubSeq(url, i + 1, Len(url))
    ELSE url

AddIgnoringCase(repos, id) ==
    IF \E r \in repos : toLowerCase(r) = toLowerCase(id) THEN repos ELSE repos \cup {id}

\* repos.add(id)
SetAdd(repos, id) == repos \cup {id}

FullName(r) == r.full_name
RepositoryFullName(item) == item.repository.full_name
RepositoryFromUrl(item) == StripApiPrefix(item.repository_url)

\* The page of one source as the source sends it.
ItemsOf(source, ids) ==
    [i \in 1..Len(ids) |->
        CASE source = "list" -> ListingItem(ids[i])
          [] source = "commits" -> CommitItem(ids[i])
          [] OTHER -> PullItem(ids[i])]

\* The identifier the loop of one source takes from an item.
Extract(source, item) ==
    CASE source = "list" -> FullName(item)
      [] source = "commits" -> RepositoryFullName(item)
      [] OTHER -> RepositoryFromUrl(item)

\* data.forEach(item => repos.add(...)), from item i on.
RECURSIVE AddEach(_, _, _, _)
AddEach(repos, source, data, i) ==
    IF i > Len(data) THEN repos
    ELSE AddEach(SetAdd(repos, Extract(source, data[i])), source, data, i + 1)

\* The repository set after the items of one page.
AddPage(repos, source, data) == AddEach(repos, source, data, 1)

NeverOverCap(page) == FALSE

OverCapOnePageLate(page) == (page - 1) * PageSize > HardCap

\* page * 100 > 1000
OverCap(page) == page * PageSize > HardCap

StraightToNextPage(program) == "fetch"

\* What follows page++ in a search loop: in src/app.ts the rate-limit check,
\* in the CLI the next round of the loop.
AfterPage(program) == IF program = "app" THEN "check" ELSE "fetch"

\* The error that ends a search loop without an exception: in src/app.ts a 422
\* whose message names the first 1000 results, in the CLI any 422.
EndsLoop(program, err) ==
    IF program = "app" THEN err.status = 422 /\ err.window ELSE err.status = 422

----------------------------------------------------------------------------
(* aggregateAnalysis.  A RepoAnalysis keeps its languages as the entries    *)
(* <<language, bytes>> in key order, and its two Sets and its evidence as   *)
(* sequences in insertion order.  A percentage is counted in hundredths of  *)
(* a percent, the two decimals toFixed(2) prints.                           *)

MaxRepos == 2
TopDepsLimit == 80
TopFileTypesLimit == 20
DiversePulls == 8
DiverseCommits == 10
DiverseFill == 15
DiverseLimit == 20

EmptyAnalysis ==
    [languages |-> <<>>, dependencies |-> <<>>, fileTypes |-> <<>>,
     commitCount |-> 0, prCount |-> 0, evidence |-> <<>>]

\* n names, as the text of the numbers 1 to n.
Numbered(n) == [i \in 1..n |-> ToString(i)]

\* n pull-request links, and n commit links, of one repository.
PullLinks(repo, n) == [i \in 1..n |-> PullLink(repo, ToString(i))]
CommitLinks(repo, n) == [i \in 1..n |-> CommitLink(repo, ToString(i))]

\* The RepoAnalysis values the aggregation is run on: small ones, one with
\* more dependencies and file types than the two top lists take, one with
\* twice as many pull requests as the diverse links take, and one with more
\* commits than they take.
AnalysisPool ==
    << [EmptyAnalysis EXCEPT !.languages = << <<"ts", 1>> >>,
                             !.dependencies = <<"x">>, !.fileTypes = <<"ts">>,
                             !.commitCount = 1, !.prCount = 1,
                             !.evidence = <<PullLink("r1", "1")>>],
       [EmptyAnalysis EXCEPT !.languages = << <<"ts", 2>>, <<"py", 1>> >>,
                             !.dependencies = <<"x", "y">>, !.fileTypes = <<"py", "ts">>,
                             !.commitCount = 1,
                             !.evidence = <<CommitLink("r2", "c")>>],
       [EmptyAnalysis EXCEPT !.languages = << <<"py", 0>> >>],
       [EmptyAnalysis EXCEPT !.languages = << <<"go", 3>>, <<"ts", 3>>, <<"py", 1>> >>,
                             !.dependencies = <<"y">>],
       EmptyAnalysis,
       [EmptyAnalysis EXCEPT !.dependencies = <<"x">> \o Numbered(TopDepsLimit + 1),
                             !.fileTypes = <<"ts">> \o Numbered(TopFileTypesLimit + 1),
                             !.prCount = 1,
                             !.evidence = <<PullLink("r3", "1")>>],
       [EmptyAnalysis EXCEPT !.prCount = 2 * DiversePulls,
                             !.evidence = PullLinks("r4", 2 * DiversePulls)],
       [EmptyAnalysis EXCEPT !.commitCount = DiverseCommits + 1,
                             !.evidence = CommitLinks("r5", DiverseCommits + 1)] >>

RepoNames == <<"o/r1", "o/r2", "o/r3", "o/r4">>

\* The maps of RepoAnalysis values: up to MaxRepos entries <<name, analysis>>.
AnalysisMaps ==
    UNION { { [i \in 1..n |-> <<RepoNames[i], AnalysisPool[f[i]]>>] :
                f \in [1..n -> 1..Len(AnalysisPool)] } : n \in 0..MaxRepos }

\* Map.prototype.get; 0 where JavaScript has undefined and "|| 0" follows.
MapGetOrZero(map, key) ==
    IF \E i \in 1..Len(map) : map[i][1] = key
    THEN map[CHOOSE i \in 1..Len(map) : map[i][1] = key][2]
    ELSE 0

\* Map.prototype.set: the value of an existing key is replaced in place, a new
\* key goes to the end.
MapSet(map, key, value) ==
    IF \E i \in 1..Len(map) : map[i][1] = key
    THEN [i \in 1..Len(map) |-> IF map[i][1] = key THEN <<key, value>> ELSE map[i]]
    ELSE Append(map, <<key, value>>)

Overwrite(old, bytes) == bytes

\* (allLanguages.get(lang) || 0) + bytes
Accumulate(old, bytes) == old + bytes

\* Object.entries(a.languages).forEach(...), from entry i on.
RECURSIVE AddLanguages(_, _, _)
AddLanguages(map, langs, i) ==
    IF i > Len(langs) THEN map
    ELSE AddLanguages(
            MapSet(map, langs[i][1], Accumulate(MapGetOrZero(map, langs[i][1]), langs[i][2])),
            langs, i + 1)

\* Set.prototype.add on a Set kept in insertion order.
SetInsert(set, x) == IF Contains(set, x) THEN set ELSE Append(set, x)

InsertEvenIfPresent(set, items) == set \o items

\* items.forEach(x => set.add(x)).  A Set keeps its values in insertion
\* order and add leaves a value that is present where it is: the result
\* holds every value of set and of items once, at the place where it stands
\* first in set followed by items.
InsertAll(set, items) ==
    LET all == set \o items
        first == { i \in 1..Len(all) : \A j \in 1..(i - 1) : all[j] # all[i] }
        Rank(i) == Cardinality({ j \in first : j <= i })
    IN [k \in 1..Cardinality(first) |-> all[CHOOSE i \in first : Rank(i) = k]]

\* Array.from(allLanguages.values()).reduce((s, b) => s + b, 0), from i on.
RECURSIVE SumBytes(_, _)
SumBytes(map, i) == IF i > Len(map) THEN 0 ELSE map[i][2] + SumBytes(map, i + 1)

\* ... || 1
TotalBytes(map) == IF SumBytes(map, 1) = 0 THEN 1 ELSE SumBytes(map, 1)

\* ((b / totalBytes) * 100).toFixed(2): the nearest number of hundredths.
ToFixed2(b, total) == (2 * 10000 * b + total) \div (2 * total)

LangPercentages(map) ==
    [i \in 1..Len(map) |->
        [lang |-> map[i][1], pct |-> ToFixed2(map[i][2], TotalBytes(map))]]

\* Array.prototype.slice(0, n)
Take(list, n) == SubSeq(list, 1, IF n < Len(list) THEN n ELSE Len(list))

FirstPicksOnly(evidence) ==
    LET IsPull(l) == Includes(l, "pull")
        IsCommit(l) == Includes(l, "commit")
    IN Take(SelectSeq(evidence, IsPull), DiversePulls)
          \o Take(SelectSeq(evidence, IsCommit), DiverseCommits)

\* The diverse-evidence block before the random sort.
Diverse(evidence) ==
    LET IsPull(l) == Includes(l, "pull")
        IsCommit(l) == Includes(l, "commit")
        first == Take(SelectSeq(evidence, IsPull), DiversePulls)
                    \o Take(SelectSeq(evidence, IsCommit), DiverseCommits)
        NotTaken(l) == ~Contains(first, l)
    IN IF Len(first) < DiverseFill
       THEN first \o Take(SelectSeq(evidence, NotTaken), DiverseFill - Len(first))
       ELSE first

MaxFullShuffle == 3

\* The orders diverse.sort(() => Math.random() - 0.5) can leave a list in:
\* with a comparator that answers at random the order is any order of the
\* same elements.  A list of up to MaxFullShuffle links is followed in every
\* order, a longer one in the orders that turn it, or its reverse, by any
\* number of places.
SortOutcomes(list) ==
    LET n == Len(list)
        orders ==
            IF n <= MaxFullShuffle
            THEN { g \in [1..n -> 1..n] : \A i, j \in 1..n : i # j => g[i] # g[j] }
            ELSE { [i \in 1..n |-> ((i + k - 1) % n) + 1] : k \in 0..(n - 1) }
                 \cup { [i \in 1..n |-> n - ((i + k - 1) % n)] : k \in 0..(n - 1) }
    IN { [i \in 1..n |-> list[f[i]]] : f \in orders }

----------------------------------------------------------------------------
(* analyzeRepos, and the per-repository loop of main in src/app.ts.  A     *)
(* page of commits or pull requests holds one item; what a manifest holds   *)
(* is given as the dependency names the code takes from it.                 *)

MaxAnalyzed == 2
MaxRepoPages == 1

\* The repositories handed to the analysis, in order.
RepoList == <<"r1", "r2", "r3", "r4">>

\* The manifests looked for, in the order of the source.
DepFiles == <<"package.json", "requirements.txt", "pom.xml">>

\* The dependency names taken from the manifest of a repository.
DepsIn(file) ==
    CASE file = "package.json" -> <<"x">>
      [] file = "requirements.txt" -> <<"y">>
      [] OTHER -> <<"x", "z">>

\* The response to /repos/{repo}/languages.
LanguagesData == << <<"ts", 2>>, <<"py", 1>> >>

Shas == <<"a", "b", "c", "d">>
Numbers == <<"1", "2", "3", "4">>

\* The one commit, and the one pull request, on page n of a repository.
CommitsData(repo, n) == << [sha |-> Shas[n], html_url |-> CommitLink(repo, Shas[n])] >>
PullsData(repo, n) == << [html_url |-> PullLink(repo, Numbers[n])] >>

\* detail.data.files of a commit: a file with an extension and one without.
FilesData == << [filename |-> <<"src", "/", "x", ".", "ts">>], [filename |-> <<"Makefile">>] >>

\* path.extname(filename).slice(1): what follows the last dot of the last path
\* segment, "" when that segment has no dot or begins with its only dot.
ExtName(filename) ==
    LET slash == lastIndexOf(filename, "/")
        dot == lastIndexOf(filename, ".")
    IN IF dot > slash + 1 /\ dot < Len(filename) THEN filename[Len(filename)] ELSE ""

\* for (const file of detail.data.files || []) if (ext) fileTypes.add(ext),
\* from file i on.
RECURSIVE AddFileTypes(_, _, _)
AddFileTypes(types, files, i) ==
    IF i > Len(files) THEN types
    ELSE AddFileTypes(
            IF ExtName(files[i].filename) # "" THEN SetInsert(types, ExtName(files[i].filename))
            ELSE types,
            files, i + 1)

\* data.forEach(pr => evidence.push(pr.html_url))
HtmlUrls(data) == [i \in 1..Len(data) |-> data[i].html_url]

\* The statuses a request of the analysis may fail with: 409 is the empty
\* repository.
RepoErrors == {404, 409, 500}

EveryPullsErrorEscapes(program) == TRUE

LastCountOnly(total, count) == count

\* totalCommits += analysis.commitCount; totalPRs += analysis.prCount
AddCount(total, count) == total + count

\* Whether an error of the pull-request fetch leaves the per-repository loop:
\* analyzeRepos wraps the fetch in try/catch, main of src/app.ts does not.
PullsErrorEscapes(program) == program = "app"

----------------------------------------------------------------------------
(* loadOrComputeAnalysis.  The cache file is absent, unreadable, or holds a *)
(* text; a value read from it or written to it is a JSON value.             *)

MAX_REPOS_TO_ANALYZE == 10

NoFile == [state |-> "absent", text |-> <<>>]
LockedFile == [state |-> "unreadable", text |-> <<>>]
FileWith(text) == [state |-> "file", text |-> text]

\* What analyzeRepos and aggregateAnalysis hand to the cache record: the two
\* totals and the lists.  langPercentages.split("\n") of the empty text is
\* one empty line.
AnalysisOutcomes ==
    { [totalCommits |-> 0, totalPRs |-> 0,
       langPercentages |-> <<StrVal(<<>>)>>, evidence |-> <<>>],
      [totalCommits |-> 90, totalPRs |-> 50,
       langPercentages |-> <<StrVal(<<"ts", ":", WS, "100.00", "%">>)>>,
       evidence |-> <<StrVal(<<"github.com", "/", "o", "/", "r1", "/", "pull", "/", "1">>)>> ] }

\* The sizes of the repository set discoverRepos may return.
DiscoverySizes == {0, 10, 40}

\* cacheData of lines 306-318, for a repository set of the given size;
\* analyzedRepos is the length of Array.from(reposSet).slice(0, MAX).
CacheData(reposCount, outcome) ==
    ObjVal(<< Member("timestamp", StrVal(<<"now">>)),
              Member("username", StrVal(<<"u">>)),
              Member("reposCount", NumVal(10 * reposCount)),
              Member("analyzedRepos",
                     NumVal(10 * Min(reposCount, MAX_REPOS_TO_ANALYZE))),
              Member("totalCommits", NumVal(10 * outcome.totalCommits)),
              Member("totalPRs", NumVal(10 * outcome.totalPRs)),
              Member("langPercentages", ArrVal(outcome.langPercentages)),
              Member("allEvidenceLinks", ArrVal(outcome.evidence)) >>)

\* The cache files a run may find: none, one it may not read, the record of
\* an earlier run, an empty object, the texts null and 50, a record cut off
\* in the middle, and an opening brace alone.
CacheFiles ==
    { NoFile, LockedFile,
      FileWith(Serialize(CacheData(10, CHOOSE o \in AnalysisOutcomes : o.totalCommits = 90))),
      FileWith(<<"{", "}">>),
      FileWith(<<"null">>),
      FileWith(<<"50">>),
      FileWith(SubSeq(Serialize(CacheData(0, CHOOSE o \in AnalysisOutcomes : o.totalCommits = 0)), 1, 9)),
      FileWith(<<"{">>) }

CacheNeverUsable(file) == FALSE

\* The try of lines 276-280 ends with return: the file was read,
\* JSON.parse accepted the text, and cached.timestamp could be evaluated,
\* which it cannot be on null.
CacheUsable(file) ==
    /\ file.state = "file"
    /\ JSONparse(file.text).ok
    /\ JSONparse(file.text).val.t # "null"

----------------------------------------------------------------------------
(* The parser as a state machine *)

\* prog: the program that runs, the CLI (unnamed/part_000) or src/app.ts.
VARIABLE prog

\* The parser: the response text and the catalog it is called with, the entries
\* and the form the text was made from, its position, the text after each
\* repair, what it returned.
VARIABLES raw, allSkills, entries, variant, ppc, stages, outcome

\* The sampler: its arguments, its position, its locals, the text returned.
VARIABLES allLinks, maxLinks, spc, selected, remaining, shuffleAt, sample,
          picked, chosen

pvars == <<raw, allSkills, entries, variant, ppc, stages, outcome>>
svars == <<allLinks, maxLinks, spc, selected, remaining, shuffleAt, sample,
           picked, chosen>>

\* The rate-limit checks: the clock, and, under SpecRate, what the last run of
\* each check saw and how long it slept.
VARIABLES now, coreCheck, searchCheck

\* Discovery: where it stands (dpc, source, page), the repository set and the
\* two partial-results flags of src/app.ts; fetched, requests and exitWhy
\* record what the source sent, what was asked of it and why each loop ended.
VARIABLES dpc, source, page, reposSet, commitSearchLimited, prSearchLimited,
          fetched, requests, exitWhy

rvars == <<now, coreCheck, searchCheck>>
dvars == <<dpc, source, page, reposSet, commitSearchLimited, prSearchLimited,
           fetched, requests, exitWhy>>

\* aggregateAnalysis: its argument (analysesIn, the entries of repoAnalyses in
\* key order), where it stands, what it has collected and what it returns.
VARIABLES agpc, analysesIn, agIdx, allLanguages, allDependencies, allFileTypes,
          allEvidence, langPercentages, topDeps, topFileTypes, diverse,
          evidenceSample

avars == <<agpc, analysesIn, agIdx, allLanguages, allDependencies, allFileTypes,
           allEvidence, langPercentages, topDeps, topFileTypes, diverse,
           evidenceSample>>

\* The per-repository analysis: its argument repos, the repository at hand
\* (ri), the step and page it is at, the commits of the page still to be looked
\* up, the manifest at hand, the RepoAnalysis being filled, and the results.
\* attempted, failedKinds and subFailed record which sub-analyses were begun,
\* which kinds of request failed so far, and at which page the commit and
\* pull-request sub-analyses of the repository at hand failed (0: not).
VARIABLES repos, ri, npc, apage, pending, depIdx, analysis, repoAnalyses,
          totalCommits, totalPRs, attempted, failedKinds, subFailed

nvars == <<repos, ri, npc, apage, pending, depIdx, analysis, repoAnalyses,
           totalCommits, totalPRs, attempted, failedKinds, subFailed>>

\* loadOrComputeAnalysis: the cache file as the run found it and as it is
\* now, the step of the function, the size of the discovered set, what the
\* analysis gave, the value returned, and how often discovery and analysis
\* were run and what was written to the cache file.
VARIABLES cacheAtStart, cacheFile, lpc, reposCount, analysed, returned,
          discoveryRuns, analysisRuns, cacheWrites

cvars == <<cacheAtStart, cacheFile, lpc, reposCount, analysed, returned,
           discoveryRuns, analysisRuns, cacheWrites>>

\* The source of the requests with its quotas: what is left of the quota of
\* each bucket (the bucket of the listing and the bucket of the searches),
\* the epoch second at which the bucket is refilled, and the requests the
\* source rejected because their bucket was empty.
VARIABLES quotaLeft, resetAt, rejected

qvars == <<quotaLeft, resetAt, rejected>>

\* The GitHub client and its caller: the call the caller is at, the request
\* it awaits (0: none), the requests sent and not yet answered, the responses
\* the interceptor holds while it sleeps, and a log of when each request was
\* sent and when its response reached the caller.
VARIABLES callAt, awaiting, inFlight, sleeping, sentAt, got

tvars == <<callAt, awaiting, inFlight, sleeping, sentAt, got>>

\* What the actions of one component leave alone.
besidesParser == <<svars, rvars, dvars, avars, nvars, cvars, qvars, tvars>>
besidesSampler == <<pvars, rvars, dvars, avars, nvars, cvars, qvars, tvars>>
besidesRate == <<pvars, svars, dvars, avars, nvars, cvars, qvars, tvars>>
besidesDiscovery == <<pvars, svars, avars, nvars, cvars, qvars, tvars>>
besidesAggregate == <<pvars, svars, rvars, dvars, nvars, cvars, qvars, tvars>>
besidesAnalysis == <<pvars, svars, rvars, dvars, avars, cvars, qvars, tvars>>
besidesCache == <<pvars, svars, rvars, dvars, avars, nvars, qvars, tvars>>
besidesQuota == <<pvars, svars, avars, nvars, cvars, tvars>>
besidesClient == <<pvars, svars, dvars, avars, nvars, cvars, qvars>>

Programs == {"cli", "app"}

ParseInit ==
    /\ prog \in Programs
    /\ \E c \in 1..Len(Catalogs) : allSkills = Catalogs[c]
    /\ \/ /\ variant \in Variants
          /\ \E n \in 0..MaxEntries :
               \E pick \in [1..n -> 1..Len(EntryPool)] :
                   entries = [i \in 1..n |-> EntryPool[pick[i]]]
          /\ raw = Variation(variant, Serialize(ArrVal(entries)))
       \/ /\ variant = "cut"
          /\ \E n \in 0..(MaxEntries - 1) :
               \E pick \in [1..n -> 1..Len(EntryPool)] :
                 \E c \in 1..Len(CutPool) :
                   entries = [i \in 1..(n + 1) |->
                                 IF i <= n THEN EntryPool[pick[i]] ELSE CutPool[c]]
          /\ \E k \in 1..(Len(Serialize(entries[Len(entries)])) - 1) :
               raw = CutOff(entries, k)
       \/ /\ variant = "other"
          /\ entries = <<>>
          /\ raw \in OtherTexts
    /\ ppc = "start"
    /\ stages = <<>>
    /\ outcome = NoOutcome

\* parseAndMapRecommendations, lines 715-747: the repairs.
RepairText ==
    /\ prog = "cli" /\ ppc = "start"
    /\ stages' = RepairStages(raw)
    /\ ppc' = "repaired"
    /\ UNCHANGED <<prog, raw, allSkills, entries, variant, outcome>>
    /\ UNCHANGED besidesParser

\* parseAndMapRecommendations, lines 754-804: parse, validate, map, return.
ParseAndMap ==
    /\ prog = "cli" /\ ppc = "repaired"
    /\ outcome' = Catch(TryParseAndMap(stages[Len(stages)], allSkills))
    /\ ppc' = "done"
    /\ UNCHANGED <<prog, raw, allSkills, entries, variant, stages>>
    /\ UNCHANGED besidesParser

\* main of src/app.ts, lines 582-613.
MainRepairText ==
    /\ prog = "app" /\ ppc = "start"
    /\ stages' = MainRepairStages(raw)
    /\ ppc' = "repaired"
    /\ UNCHANGED <<prog, raw, allSkills, entries, variant, outcome>>
    /\ UNCHANGED besidesParser

\* main of src/app.ts, lines 615-645.
MainParseMap ==
    /\ prog = "app" /\ ppc = "repaired"
    /\ outcome' = MainParseAndMap(stages[Len(stages)], allSkills)
    /\ ppc' = "done"
    /\ UNCHANGED <<prog, raw, allSkills, entries, variant, stages>>
    /\ UNCHANGED besidesParser

\* displayResults, line 815: the list it was handed is sorted in place, then
\* printed.
displayResults ==
    /\ prog = "cli" /\ ppc = "done"
    /\ outcome' = [outcome EXCEPT !.recs = SortByScore(@)]
    /\ ppc' = "displayed"
    /\ UNCHANGED <<prog, raw, allSkills, entries, variant, stages>>
    /\ UNCHANGED besidesParser

\* main of src/app.ts, lines 647-657: sort, then print.
MainSortAndPrint ==
    /\ prog = "app" /\ ppc = "done"
    /\ outcome' = [outcome EXCEPT !.recs = SortByScore(@)]
    /\ ppc' = "displayed"
    /\ UNCHANGED <<prog, raw, allSkills, entries, variant, stages>>
    /\ UNCHANGED besidesParser

ParseNext ==
    \/ RepairText \/ ParseAndMap \/ displayResults
    \/ MainRepairText \/ MainParseMap \/ MainSortAndPrint

----------------------------------------------------------------------------
(* Claims about the parser, checked under SpecParse *)

Built == outcome.built
Proposed == outcome.proposed
CliDone == prog = "cli" /\ ppc = "done"

\* Recommendation r carries the id and the name of the Skill at position k.
CopiedFrom(r, k) == r.id = allSkills[k].id /\ r.name = allSkills[k].name

NearestClamped(tenths) ==
    LET n == CHOOSE m \in -20..200 : 10 * m - tenths <= 5 /\ tenths - 10 * m < 5
    IN IF n < 0 THEN 0 ELSE IF n > 100 THEN 100 ELSE n

\* C2: the Recommendation that parseAndMapRecommendations builds from an entry
\* with numeric score s carries max(0, min(100, round(s))), and every score
\* built or returned is an integer of 0..100.
C2_ScoreClamped ==
    CliDone =>
        /\ \A i \in 1..Len(Built) :
              /\ Built[i].score = NearestClamped(Proposed[i].score)
              /\ Built[i].score \in 0..100
        /\ \A j \in 1..Len(outcome.recs) : outcome.recs[j].score \in 0..100

\* A response with a negative score and a fractional one, both resolved.
C2_Witness ==
    /\ CliDone
    /\ \E i, j \in 1..Len(Built) :
          /\ Proposed[i].score < 0 /\ Built[i].score = 0
          /\ Proposed[j].score = 395 /\ Built[j].score = 40

\* C3: parseAndMapRecommendations never throws, and it returns the empty list
\* whenever the repaired text does not parse or parses to no array.
C3_NeverThrows ==
    CliDone =>
        /\ ~outcome.threw
        /\ LET p == JSONparse(stages[6])
           IN (~p.ok \/ p.val.t # "arr") => outcome.recs = <<>>

\* A non-empty text that is still invalid after the five repairs.
C3_Witness ==
    CliDone /\ raw # <<>> /\ outcome.error = "SyntaxError" /\ outcome.recs = <<>>

\* C4 as stated: on a text that is a valid serialized array, each of the five
\* repair steps leaves the text unchanged, and so does repairing the result again.
C4_RepairLeavesValidTextAlone ==
    (prog = "cli" /\ variant = "plain" /\ ppc # "start") =>
        /\ \A k \in 1..5 : stages[k + 1] = stages[k]
        /\ stages[6] = raw
        /\ Repair(stages[6]) = stages[6]

\* C5: a valid serialized array gives the same Recommendations as it is, in a
\* json fence, inside prose without brackets, and with a comma before its
\* final closing bracket.
C5_SameRecommendations ==
    (CliDone /\ variant \in {"plain", "fenced", "prose", "comma"}) =>
        outcome.recs
            = parseAndMapRecommendations(Serialize(ArrVal(entries)), allSkills).recs

\* Two Recommendations returned for an array sent with a trailing comma.
C5_Witness == CliDone /\ variant = "comma" /\ Len(outcome.recs) = 2

\* The name an entry proposes: its name, or its skill when it has no name.
ProposedName(e) == IF Get(e, "name").t = "str" THEN Get(e, "name").v ELSE Get(e, "skill").v

\* An entry with a string name (or, having no name, a string skill), a
\* numeric score and a string reason.
WellFormed(e) ==
    /\ e.t = "obj"
    /\ \/ Get(e, "name").t = "str"
       \/ Get(e, "name").t = "undefined" /\ Get(e, "skill").t = "str"
    /\ Get(e, "score").t = "num"
    /\ Get(e, "reason").t = "str"

\* The catalog positions whose Skill name is the name, up to letter case and
\* surrounding whitespace.
Resolving(name) ==
    { k \in 1..Len(allSkills) :
        toLowerCase(trim(allSkills[k].name)) = toLowerCase(trim(name)) }

\* A well-formed entry that resolves to a catalog Skill with a score of at
\* least ScoreFloor after rounding and clamping.
Deserving(e) ==
    /\ WellFormed(e)
    /\ Resolving(ProposedName(e)) # {}
    /\ NearestClamped(Get(e, "score").v) >= ScoreFloor

Yielded(e) ==
    \E j \in 1..Len(outcome.recs) :
        /\ \E k \in Resolving(ProposedName(e)) : CopiedFrom(outcome.recs[j], k)
        /\ outcome.recs[j].score = NearestClamped(Get(e, "score").v)

\* C25: the entries of the parsed array are validated one by one: an entry
\* without a string name-like field, a numeric score or a string reason, or
\* with a name of a non-string type, is discarded alone, and every
\* well-formed entry of the same array that resolves to a catalog Skill with
\* score >= 40 still yields its Recommendation.
C25_InvalidEntryDiscardedAlone ==
    (CliDone /\ variant = "plain") =>
        \A i \in 1..Len(entries) : Deserving(entries[i]) => Yielded(entries[i])

\* An entry passes the filter by its string skill and has a name that is
\* neither nullish nor a string.
NameBreaksTrim(e) ==
    /\ e.t = "obj"
    /\ Get(e, "skill").t = "str" /\ Get(e, "score").t = "num" /\ Get(e, "reason").t = "str"
    /\ Get(e, "name").t \notin {"str", "undefined", "null"}

\* Without such an entry in the array every deserving entry yields its
\* Recommendation.
C25_HoldsWhenNoNameBreaksTrim ==
    (CliDone /\ variant = "plain" /\ \A i \in 1..Len(entries) : ~NameBreaksTrim(entries[i])) =>
        \A i \in 1..Len(entries) : Deserving(entries[i]) => Yielded(entries[i])

\* The well-formed entries of the array whose name resolves to no Skill.
Unresolved ==
    { i \in 1..Len(entries) :
        WellFormed(entries[i]) /\ Resolving(ProposedName(entries[i])) = {} }

\* The rejection log records that name the entry at place i.
RejectionsOf(i) ==
    { j \in 1..Len(outcome.warned) : outcome.warned[j] = trim(ProposedName(entries[i])) }

\* C26: every validated entry whose name matches no catalog Skill name, a
\* name made only of whitespace included, gets exactly one rejection log
\* record and no Recommendation, the call does not fail, and an entry whose
\* name does match gets no rejection log record.
C26_UnresolvedLoggedOnce ==
    (CliDone /\ variant = "plain") =>
        /\ ~outcome.threw
        /\ Len(outcome.warned) = Cardinality(Unresolved)
        /\ \A i \in Unresolved :
              Cardinality(RejectionsOf(i))
                 = Cardinality({ k \in Unresolved :
                                   trim(ProposedName(entries[k])) = trim(ProposedName(entries[i])) })
        /\ Len(outcome.recs) <= Len(entries) - Cardinality(Unresolved)
        /\ \A i \in 1..Len(entries) :
              (WellFormed(entries[i]) /\ i \notin Unresolved) => RejectionsOf(i) = {}

\* The same for arrays in which no unresolved name is blank and no name
\* breaks trim.
C26_HoldsForVisibleNames ==
    (/\ CliDone /\ variant = "plain"
     /\ \A i \in 1..Len(entries) : ~NameBreaksTrim(entries[i])
     /\ \A i \in Unresolved : trim(ProposedName(entries[i])) # <<>>)
        => C26_UnresolvedLoggedOnce

\* What parseAndMapRecommendations returns for the entries sent whole.
WhenSentWhole(list) ==
    Catch(TryParseAndMap(Serialize(ArrVal(list)), allSkills)).recs

CompleteBeforeCut == SubSeq(entries, 1, Len(entries) - 1)

\* The call was made on a cut-off array, one without a closing bracket.
CutCase ==
    /\ CliDone /\ variant = "cut"
    /\ lastIndexOf(raw, "]") = 0

\* C28: for a valid serialized array cut off in the middle of an entry, and
\* holding no closing bracket, parseAndMapRecommendations closes the array
\* right after the last closing brace and returns exactly the Recommendations
\* of the entries that were complete before the cut; when the text holds no
\* closing brace it only appends a closing bracket and returns none.
C28_CutArrayYieldsCompleteEntries ==
    CutCase =>
        LET lastCloseBrace == lastIndexOf(stages[4], "}")
        IN IF lastCloseBrace # 0
           THEN /\ stages[5] = Append(SubSeq(stages[4], 1, lastCloseBrace), "]")
                /\ outcome.recs = WhenSentWhole(CompleteBeforeCut)
           ELSE /\ stages[5] = Append(stages[4], "]")
                /\ outcome.recs = <<>>

\* The array was closed inside a string of the entry it was cut off in.
ClosedInsideString ==
    lastIndexOf(raw, "}") > Len(Serialize(ArrVal(CompleteBeforeCut)))

\* The same statement for the cut-off arrays whose last closing brace is the
\* one that ends the last complete entry.
C28_HoldsWhenLastBraceEndsAnEntry ==
    (CutCase /\ ~ClosedInsideString) => C28_CutArrayYieldsCompleteEntries

\* The Recommendations built whose rounded and clamped score reaches the
\* floor, in the order they were built.
KeptPlaces == { i \in 1..Len(Built) : NearestClamped(Proposed[i].score) >= 40 }

KeptBuilt ==
    [k \in 1..Cardinality(KeptPlaces) |->
        Built[CHOOSE i \in KeptPlaces :
                 Cardinality({ j \in KeptPlaces : j <= i }) = k]]

CliDisplayed == prog = "cli" /\ ppc = "displayed"

\* C27: every Recommendation that parseAndMapRecommendations returns has a
\* score of at least 40; the floor is applied to the rounded and clamped
\* score, so an entry of raw score 39.5 is returned with score 40 and one of
\* raw score 39.4 is not returned; the list displayResults prints is in
\* non-increasing score order and holds the Recommendations returned.
C27_FloorThenSortedDisplay ==
    /\ (CliDone \/ CliDisplayed) =>
          \A j \in 1..Len(outcome.recs) : outcome.recs[j].score >= 40
    /\ CliDone =>
          /\ outcome.recs = KeptBuilt
          /\ \A i \in 1..Len(Built) :
                /\ Proposed[i].score = 395 =>
                      (i \in KeptPlaces /\ Built[i].score = 40)
                /\ Proposed[i].score = 394 => i \notin KeptPlaces
    /\ CliDisplayed =>
          /\ \A j \in 1..(Len(outcome.recs) - 1) :
                outcome.recs[j].score >= outcome.recs[j + 1].score
          /\ Len(outcome.recs) = Len(KeptBuilt)
          /\ \A r \in { KeptBuilt[j] : j \in 1..Len(KeptBuilt) } :
                Cardinality({ j \in 1..Len(outcome.recs) : outcome.recs[j] = r })
                  = Cardinality({ j \in 1..Len(KeptBuilt) : KeptBuilt[j] = r })

\* An entry of raw score 39.5 and a later one of score 90, both resolved:
\* both are returned, and the display puts the later one first.
C27_Witness ==
    /\ CliDisplayed
    /\ Len(Proposed) = 2
    /\ Proposed[1].score = 395 /\ Proposed[2].score = 900
    /\ Len(outcome.recs) = 2
    /\ outcome.recs[1].score = 90 /\ outcome.recs[2].score = 40

----------------------------------------------------------------------------
(* getFreshEvidenceSample as a state machine *)

SampleInit ==
    /\ \E n \in 0..MaxPool : allLinks \in [1..n -> LinkPool]
    /\ maxLinks \in 0..MaxSample
    /\ spc = "start"
    /\ selected = <<>>
    /\ remaining = <<>>
    /\ shuffleAt = 0
    /\ sample = <<>>
    /\ picked = 0 /\ chosen = <<>>

\* Lines 566-568.
ReturnWholePool ==
    /\ spc = "start"
    /\ WholePool(allLinks, maxLinks)
    /\ sample' = JoinLines(allLinks)
    /\ spc' = "done"
    /\ UNCHANGED <<allLinks, maxLinks, selected, remaining, shuffleAt, picked, chosen>>
    /\ UNCHANGED <<prog, besidesSampler>>

\* Lines 570-599.
SelectByPriority ==
    /\ spc = "start"
    /\ ~WholePool(allLinks, maxLinks)
    /\ selected' = PriorityPicks(allLinks, maxLinks)
    /\ remaining' = Leftover(allLinks, selected')
    /\ picked' = Len(selected')
    /\ spc' = "fill"
    /\ UNCHANGED <<allLinks, maxLinks, shuffleAt, sample, chosen>>
    /\ UNCHANGED <<prog, besidesSampler>>

\* One turn of the loop of lines 600-603, idx being what Math.random gives.
FillRandomly ==
    /\ spc = "fill"
    /\ Len(selected) < maxLinks /\ Len(remaining) > 0
    /\ \E idx \in 1..Len(remaining) :
          /\ selected' = Append(selected, remaining[idx])
          /\ remaining' = RemoveAt(remaining, idx)
    /\ UNCHANGED <<allLinks, maxLinks, spc, shuffleAt, sample, picked, chosen>>
    /\ UNCHANGED <<prog, besidesSampler>>

\* The loop of lines 600-603 ends; the shuffle starts at the last position.
StartShuffle ==
    /\ spc = "fill"
    /\ ~(Len(selected) < maxLinks /\ Len(remaining) > 0)
    /\ shuffleAt' = Len(selected)
    /\ chosen' = selected
    /\ spc' = "shuffle"
    /\ UNCHANGED <<allLinks, maxLinks, selected, remaining, sample, picked>>
    /\ UNCHANGED <<prog, besidesSampler>>

\* One turn of the loop of lines 606-609, j being what crypto.randomInt gives.
ShuffleStep ==
    /\ spc = "shuffle"
    /\ shuffleAt > 1
    /\ \E j \in 1..shuffleAt : selected' = Swap(selected, shuffleAt, j)
    /\ shuffleAt' = shuffleAt - 1
    /\ UNCHANGED <<allLinks, maxLinks, spc, remaining, sample, picked, chosen>>
    /\ UNCHANGED <<prog, besidesSampler>>

\* Line 611.
ReturnSample ==
    /\ spc = "shuffle"
    /\ shuffleAt <= 1
    /\ sample' = JoinLines(SubSeq(selected, 1, Min(maxLinks, Len(selected))))
    /\ spc' = "done"
    /\ UNCHANGED <<allLinks, maxLinks, selected, remaining, shuffleAt, picked, chosen>>
    /\ UNCHANGED <<prog, besidesSampler>>

SampleNext ==
    \/ ReturnWholePool \/ SelectByPriority \/ FillRandomly
    \/ StartShuffle \/ ShuffleStep \/ ReturnSample

----------------------------------------------------------------------------
(* Claims about the sampler, checked under SpecSample *)

\* The links of the returned text: what stands between its line breaks.
SampleLines == [i \in 1..((Len(sample) + 1) \div 2) |-> sample[2 * i - 1]]

\* C6: when the evidence list is no longer than the sample size, the text
\* returned holds exactly the links of the list, all of them, in list order,
\* whatever the random source gives.
C6_WholePoolInOrder ==
    (spc = "done" /\ Len(allLinks) <= maxLinks) =>
        /\ SampleLines = allLinks
        /\ \A i \in 1..Len(sample) : (i % 2 = 0) => sample[i] = NL

\* A list of three different links returned for a sample size of three.
C6_Witness ==
    /\ spc = "done" /\ maxLinks = 3 /\ Len(allLinks) = 3
    /\ allLinks[1] # allLinks[2] /\ allLinks[2] # allLinks[3]
    /\ Len(SampleLines) = 3

\* C7 as stated: when the evidence list is longer than the sample size, exactly
\* maxLinks links are returned and no link is returned twice.
C7_ExactSizeNoDuplicate ==
    (spc = "done" /\ Len(allLinks) > maxLinks) =>
        /\ Len(SampleLines) = maxLinks
        /\ \A i, j \in 1..Len(SampleLines) :
              i # j => SampleLines[i] # SampleLines[j]

\* The kind of a link, and the place in the evidence list of the first link
\* of its repository and of the first link of its repository and kind.
KindOf(link) == IF Includes(link, "pull") THEN "pull" ELSE "commit"
GroupSeenAt(link) ==
    CHOOSE k \in 1..Len(allLinks) :
        /\ RepoOf(allLinks[k]) = RepoOf(link)
        /\ \A j \in 1..(k - 1) : RepoOf(allLinks[j]) # RepoOf(link)
FirstOfGroupAndKind(link) ==
    allLinks[CHOOSE k \in 1..Len(allLinks) :
                /\ RepoOf(allLinks[k]) = RepoOf(link) /\ KindOf(allLinks[k]) = KindOf(link)
                /\ \A j \in 1..(k - 1) :
                      ~(RepoOf(allLinks[j]) = RepoOf(link) /\ KindOf(allLinks[j]) = KindOf(link))]

\* The links chosen so far, in the order chosen: selected until the shuffle
\* begins, what the shuffle began with afterwards.
ChosenLinks == IF spc = "fill" THEN selected ELSE chosen
PassLinks == SubSeq(ChosenLinks, 1, picked)
FillLinks == SubSeq(ChosenLinks, picked + 1, Len(ChosenLinks))

\* C24: for a list longer than the sample size, the links chosen before the
\* random fill hold at most one pull-request link and at most one commit
\* link per repository group, each the first such link of its group, the
\* pull-request links before the commit links and each kind in the order in
\* which the groups are first seen; the random fill takes only links that
\* the two passes did not choose, none more often than the list holds it;
\* and the output is a permutation of the chosen links, all members of the
\* list.
C24_OnePerGroupThenFill ==
    (spc \in {"fill", "shuffle", "done"} /\ Len(allLinks) > maxLinks) =>
        /\ \A i \in 1..Len(ChosenLinks) : Contains(allLinks, ChosenLinks[i])
        /\ \A i \in 1..Len(PassLinks) : PassLinks[i] = FirstOfGroupAndKind(PassLinks[i])
        /\ \A i, j \in 1..Len(PassLinks) :
              i < j =>
                 /\ ~(RepoOf(PassLinks[i]) = RepoOf(PassLinks[j])
                        /\ KindOf(PassLinks[i]) = KindOf(PassLinks[j]))
                 /\ KindOf(PassLinks[i]) = "commit" => KindOf(PassLinks[j]) = "commit"
                 /\ KindOf(PassLinks[i]) = KindOf(PassLinks[j])
                       => GroupSeenAt(PassLinks[i]) < GroupSeenAt(PassLinks[j])
        /\ \A i \in 1..Len(FillLinks) :
              /\ ~Contains(PassLinks, FillLinks[i])
              /\ Cardinality({ k \in 1..Len(FillLinks) : FillLinks[k] = FillLinks[i] })
                    <= Cardinality({ k \in 1..Len(allLinks) : allLinks[k] = FillLinks[i] })
        /\ (spc = "done") =>
              /\ Len(SampleLines) = Len(chosen)
              /\ \A i \in 1..Len(chosen) :
                    Cardinality({ k \in 1..Len(SampleLines) : SampleLines[k] = chosen[i] })
                       = Cardinality({ k \in 1..Len(chosen) : chosen[k] = chosen[i] })

\* Four links of two repositories for a sample of three: the pull-request
\* pass chose the pull request of the repository seen second, the commit
\* pass the first commit of the repository seen first, the fill one of its
\* two other commits, and the shuffle moved the pull-request link to the end.
C24_Witness ==
    /\ spc = "done" /\ maxLinks = 3
    /\ allLinks = << CommitLink("r1", "a"), PullLink("r2", "2"),
                     CommitLink("r1", "b"), CommitLink("r1", "b") >>
    /\ picked = 2
    /\ chosen = << PullLink("r2", "2"), CommitLink("r1", "a"), CommitLink("r1", "b") >>
    /\ SampleLines[3] = PullLink("r2", "2")

----------------------------------------------------------------------------
(* The two rate-limit checks as a state machine *)

MaxReset == 2
MaxClock == 3

\* The quota values around the two low-water marks, and the reset epochs.
Quotas ==
    { 0, SearchLowWater - 1, SearchLowWater, CoreLowWater - 1, CoreLowWater,
      CoreLowWater + 1 }
Resets == 0..MaxReset

RateHeaders ==
    [remaining : {Absent} \cup {Header(n) : n \in Quotas},
     reset : {Absent} \cup {Header(n) : n \in Resets}]

\* resources.search of the /rate_limit response body.
SearchQuota == [remaining : Quotas, reset : Resets]

NoCheck == [ran |-> FALSE, at |-> 0, remaining |-> 0, reset |-> 0, wait |-> 0]

\* What the interceptor sees in the headers h at time t, and its sleep.
CoreCheckAt(h, t) ==
    [ran |-> TRUE, at |-> t, remaining |-> HeaderInt(h.remaining),
     reset |-> HeaderInt(h.reset),
     wait |-> InterceptorWait(HeaderInt(h.remaining), HeaderInt(h.reset), t)]

\* What checkSearchRateLimit sees in the body at time t, and its sleep.
SearchCheckAt(search, t) ==
    [ran |-> TRUE, at |-> t, remaining |-> search.remaining,
     reset |-> search.reset,
     wait |-> SearchWait(search.remaining, search.reset, t)]

RateInit ==
    /\ prog \in Programs
    /\ now = 0
    /\ coreCheck = NoCheck
    /\ searchCheck = NoCheck

\* Time passes while the program does something else.
Tick ==
    /\ now < MaxClock
    /\ now' = now + 1
    /\ UNCHANGED <<prog, coreCheck, searchCheck, besidesRate>>

\* A fulfilled response goes through the interceptor.
InterceptResponse ==
    \E h \in RateHeaders :
        /\ coreCheck' = CoreCheckAt(h, now)
        /\ now' = now + coreCheck'.wait
        /\ UNCHANGED <<prog, searchCheck, besidesRate>>

\* checkSearchRateLimit of src/app.ts: the /rate_limit response goes through
\* the interceptor, then the search quota of its body is looked at.
CheckSearchRateLimit ==
    /\ prog = "app"
    /\ \E h \in RateHeaders, search \in SearchQuota :
        /\ coreCheck' = CoreCheckAt(h, now)
        /\ searchCheck' = SearchCheckAt(search, now + coreCheck'.wait)
        /\ now' = now + coreCheck'.wait + searchCheck'.wait
        /\ UNCHANGED <<prog, besidesRate>>

RateNext == Tick \/ InterceptResponse \/ CheckSearchRateLimit

----------------------------------------------------------------------------
(* Claims about the rate-limit checks, checked under SpecRate *)

\* C10: a check that observed a remaining quota at or above its low-water
\* mark (10 for the interceptor, 5 for checkSearchRateLimit) slept for zero
\* time, whatever the reset epoch was.
C10_NoWaitAtOrAboveMark ==
    /\ (coreCheck.ran /\ coreCheck.remaining >= 10) => coreCheck.wait = 0
    /\ (searchCheck.ran /\ searchCheck.remaining >= 5) => searchCheck.wait = 0

\* Both checks ran with the quota exactly at the mark and the reset ahead.
C10_Witness ==
    /\ coreCheck.ran /\ coreCheck.remaining = 10 /\ coreCheck.reset > now
    /\ searchCheck.ran /\ searchCheck.remaining = 5 /\ searchCheck.reset > now
    /\ coreCheck.wait = 0 /\ searchCheck.wait = 0

\* The checks that ran with the remaining quota below their low-water mark.
LowChecks ==
    { c \in {coreCheck} : c.ran /\ c.remaining < 10 }
        \cup { c \in {searchCheck} : c.ran /\ c.remaining < 5 }

\* C11 as stated: below the mark, a check sleeps until the reset epoch plus
\* 2 seconds if the reset epoch is later than the time of the check, and for
\* zero time in every other case.
C11_WaitsOnlyIfResetAhead ==
    \A c \in LowChecks :
        c.wait = IF c.reset > c.at THEN c.reset + 2 - c.at ELSE 0

\* C11, amended: below the mark, a check sleeps until the reset epoch plus
\* 2 seconds if the reset epoch is not 0 and that instant (not the reset epoch
\* itself) is later than the time of the check, and for zero time otherwise.
C11_WaitsUntilResetPlusMargin ==
    \A c \in LowChecks :
        c.wait = IF c.reset # 0 /\ c.reset + 2 > c.at THEN c.reset + 2 - c.at ELSE 0

\* Both checks ran below their mark: the interceptor with a reset epoch equal
\* to the time of the check, and it slept 2 seconds; checkSearchRateLimit then
\* with a reset epoch of 0, and it did not sleep.
C11_Witness ==
    /\ coreCheck.ran /\ coreCheck.remaining < 10
    /\ coreCheck.reset = coreCheck.at /\ coreCheck.at > 0 /\ coreCheck.wait = 2
    /\ searchCheck.ran /\ searchCheck.remaining < 5
    /\ searchCheck.reset = 0 /\ searchCheck.wait = 0
    /\ searchCheck.at = coreCheck.at + 2

----------------------------------------------------------------------------
(* Discovery as a state machine: discoverRepos of the CLI and the three     *)
(* discovery loops of main in src/app.ts, one action per request.           *)

Searches == {"commits", "prs"}

NoExit == [list |-> "running", commits |-> "running", prs |-> "running"]

DiscoverInit ==
    /\ prog \in Programs
    /\ now = 0
    /\ dpc = "fetch" /\ source = "list" /\ page = 1
    /\ reposSet = {}
    /\ commitSearchLimited = FALSE /\ prSearchLimited = FALSE
    /\ fetched = {} /\ requests = <<>> /\ exitWhy = NoExit

\* The time after a fulfilled response with headers h passed the interceptor.
Delivered(h) ==
    now + InterceptorWait(HeaderInt(h.remaining), HeaderInt(h.reset), now)

\* The loop of the current source is left for the reason why: after the
\* listing and the commit search the next loop begins (in src/app.ts with a
\* rate-limit check before page is set to 1), after the PR search discovery
\* is complete.
Leave(why) ==
    /\ exitWhy' = [exitWhy EXCEPT ![source] = why]
    /\ IF source = "prs"
       THEN dpc' = "done" /\ UNCHANGED <<source, page>>
       ELSE /\ source' = IF source = "list" THEN "commits" ELSE "prs"
            /\ IF prog = "app"
               THEN dpc' = "check0" /\ UNCHANGED page
               ELSE dpc' = "fetch" /\ page' = 1

\* commitSearchLimited = true, prSearchLimited = true in src/app.ts.
SetLimited ==
    /\ commitSearchLimited' = (commitSearchLimited \/ (prog = "app" /\ source = "commits"))
    /\ prSearchLimited' = (prSearchLimited \/ (prog = "app" /\ source = "prs"))

Fail ==
    /\ dpc' = "failed"
    /\ UNCHANGED <<source, page, exitWhy>>

\* A page of the current source with items on it.
TakePage(ids, h) ==
    /\ requests' = Append(requests, <<source, page>>)
    /\ now' = Delivered(h)
    /\ reposSet' = AddPage(reposSet, source, ItemsOf(source, ids))
    /\ fetched' = fetched \cup { <<source, ids[i]>> : i \in 1..Len(ids) }
    /\ page' = page + 1

ListPage ==
    /\ dpc = "fetch" /\ source = "list" /\ page <= MaxListPages
    /\ \E ids \in IdPages \ {<<>>}, h \in DiscoveryHeaders : TakePage(ids, h)
    /\ UNCHANGED <<dpc, source, exitWhy, commitSearchLimited, prSearchLimited>>
    /\ UNCHANGED <<prog, coreCheck, searchCheck, besidesDiscovery>>

ListEnd ==
    /\ dpc = "fetch" /\ source = "list"
    /\ requests' = Append(requests, <<source, page>>)
    /\ \E h \in DiscoveryHeaders : now' = Delivered(h)
    /\ Leave("empty")
    /\ UNCHANGED <<reposSet, fetched, commitSearchLimited, prSearchLimited>>
    /\ UNCHANGED <<prog, coreCheck, searchCheck, besidesDiscovery>>

\* The listing loop has no try: any error ends the run.
ListFails ==
    /\ dpc = "fetch" /\ source = "list"
    /\ requests' = Append(requests, <<source, page>>)
    /\ \E err \in RequestErrors : Fail
    /\ UNCHANGED <<now, reposSet, fetched, commitSearchLimited, prSearchLimited>>
    /\ UNCHANGED <<prog, coreCheck, searchCheck, besidesDiscovery>>

\* if (page * 100 > 1000) break, in src/app.ts after setting the flag.
SearchCap ==
    /\ dpc = "fetch" /\ source \in Searches /\ OverCap(page)
    /\ SetLimited
    /\ Leave("cap")
    /\ UNCHANGED <<now, reposSet, fetched, requests>>
    /\ UNCHANGED <<prog, coreCheck, searchCheck, besidesDiscovery>>

SearchPage ==
    /\ dpc = "fetch" /\ source \in Searches /\ ~OverCap(page)
    /\ \E ids \in IdPages \ {<<>>}, h \in DiscoveryHeaders : TakePage(ids, h)
    /\ dpc' = AfterPage(prog)
    /\ UNCHANGED <<source, exitWhy, commitSearchLimited, prSearchLimited>>
    /\ UNCHANGED <<prog, coreCheck, searchCheck, besidesDiscovery>>

SearchEnd ==
    /\ dpc = "fetch" /\ source \in Searches /\ ~OverCap(page)
    /\ requests' = Append(requests, <<source, page>>)
    /\ \E h \in DiscoveryHeaders : now' = Delivered(h)
    /\ Leave("empty")
    /\ UNCHANGED <<reposSet, fetched, commitSearchLimited, prSearchLimited>>
    /\ UNCHANGED <<prog, coreCheck, searchCheck, besidesDiscovery>>

\* The catch of a search loop.
Caught(err) ==
    IF EndsLoop(prog, err)
    THEN SetLimited /\ Leave(IF err.window THEN "window" ELSE "unrecognized")
    ELSE Fail /\ UNCHANGED <<commitSearchLimited, prSearchLimited>>

SearchError ==
    /\ dpc = "fetch" /\ source \in Searches /\ ~OverCap(page)
    /\ requests' = Append(requests, <<source, page>>)
    /\ \E err \in RequestErrors : Caught(err)
    /\ UNCHANGED <<now, reposSet, fetched>>
    /\ UNCHANGED <<prog, coreCheck, searchCheck, besidesDiscovery>>

\* A response without items: data.items?.length === 0 is false, and
\* data.items.forEach throws a TypeError, which the catch throws again.
SearchWithoutItems ==
    /\ dpc = "fetch" /\ source \in Searches /\ ~OverCap(page)
    /\ requests' = Append(requests, <<source, page>>)
    /\ \E h \in DiscoveryHeaders : now' = Delivered(h)
    /\ Fail
    /\ UNCHANGED <<reposSet, fetched, commitSearchLimited, prSearchLimited>>
    /\ UNCHANGED <<prog, coreCheck, searchCheck, besidesDiscovery>>

\* The time after checkSearchRateLimit got headers h and the search quota.
Checked(h, quota) ==
    Delivered(h) + SearchWait(quota.remaining, quota.reset, Delivered(h))

\* The search quotas a /rate_limit response reports during discovery.
DiscoveryQuotas ==
    { [remaining |-> 20, reset |-> 3], [remaining |-> 2, reset |-> 3] }

\* await checkSearchRateLimit(); page = 1, before each search loop.
CheckBeforeLoop ==
    /\ dpc = "check0"
    /\ requests' = Append(requests, <<"rate_limit", 0>>)
    /\ \E h \in DiscoveryHeaders, quota \in DiscoveryQuotas : now' = Checked(h, quota)
    /\ dpc' = "fetch" /\ page' = 1
    /\ UNCHANGED <<source, exitWhy, reposSet, fetched, commitSearchLimited, prSearchLimited>>
    /\ UNCHANGED <<prog, coreCheck, searchCheck, besidesDiscovery>>

\* Outside the try: an error of the /rate_limit request ends the run.
CheckBeforeLoopFails ==
    /\ dpc = "check0"
    /\ requests' = Append(requests, <<"rate_limit_failed", 0>>)
    /\ \E err \in RequestErrors : Fail
    /\ UNCHANGED <<now, reposSet, fetched, commitSearchLimited, prSearchLimited>>
    /\ UNCHANGED <<prog, coreCheck, searchCheck, besidesDiscovery>>

\* await checkSearchRateLimit() after page++, inside the try.
CheckAfterPage ==
    /\ dpc = "check"
    /\ requests' = Append(requests, <<"rate_limit", 0>>)
    /\ \E h \in DiscoveryHeaders, quota \in DiscoveryQuotas : now' = Checked(h, quota)
    /\ dpc' = "fetch"
    /\ UNCHANGED <<source, page, exitWhy, reposSet, fetched, commitSearchLimited, prSearchLimited>>
    /\ UNCHANGED <<prog, coreCheck, searchCheck, besidesDiscovery>>

CheckAfterPageFails ==
    /\ dpc = "check"
    /\ requests' = Append(requests, <<"rate_limit_failed", 0>>)
    /\ \E err \in RequestErrors : Caught(err)
    /\ UNCHANGED <<now, reposSet, fetched>>
    /\ UNCHANGED <<prog, coreCheck, searchCheck, besidesDiscovery>>

DiscoverNext ==
    \/ ListPage \/ ListEnd \/ ListFails
    \/ SearchCap \/ SearchPage \/ SearchEnd \/ SearchError \/ SearchWithoutItems
    \/ CheckBeforeLoop \/ CheckBeforeLoopFails
    \/ CheckAfterPage \/ CheckAfterPageFails

----------------------------------------------------------------------------
(* Claims about discovery, checked under SpecDiscover *)

\* The identifiers of all items of all pages the three sources sent.
FetchedIds == { f[2] : f \in fetched }

\* C8: when discovery completes, the repository set is the union of the
\* identifiers of every item of every fetched page of the three sources,
\* compared by exact equality, so that identifiers differing in letter case
\* only are distinct members.
C8_UnionOfFetched ==
    (dpc = "done") => reposSet = FetchedIds

\* Discovery completed, every source sent items, and the two identifiers
\* that differ in letter case only are both members.
C8_Witness ==
    /\ dpc = "done"
    /\ { f[1] : f \in fetched } = {"list", "commits", "prs"}
    /\ <<"a", "/", "b">> \in reposSet /\ <<"A", "/", "b">> \in reposSet
    /\ Cardinality(reposSet) = 2

\* C9: in src/app.ts no search page p with p * 100 > 1000 is ever requested,
\* and a search loop that stopped at the cap has its partial-results flag set.
C9_CapRespectedAndFlagged ==
    (prog = "app") =>
        /\ \A i \in 1..Len(requests) :
              requests[i][1] \in Searches => requests[i][2] * 100 <= 1000
        /\ exitWhy.commits = "cap" => commitSearchLimited
        /\ exitWhy.prs = "cap" => prSearchLimited

\* Both search loops of src/app.ts ran up to page 10 and stopped at the cap.
C9_Witness ==
    /\ prog = "app" /\ dpc = "done"
    /\ exitWhy.commits = "cap" /\ exitWhy.prs = "cap"
    /\ commitSearchLimited /\ prSearchLimited
    /\ \E i \in 1..Len(requests) : requests[i] = <<"commits", 10>>
    /\ \E i \in 1..Len(requests) : requests[i] = <<"prs", 10>>

\* The requests for a page of one of the two searches, by their place in
\* the log.
SearchRequests == { i \in 1..Len(requests) : requests[i][1] \in Searches }

\* C15: in src/app.ts every search page request comes straight after a
\* /rate_limit request that succeeded, so that a completed
\* checkSearchRateLimit lies between any two search page requests.
C15_CheckBeforeEverySearchPage ==
    (prog = "app") =>
        \A i \in SearchRequests : i > 1 /\ requests[i - 1] = <<"rate_limit", 0>>

\* src/app.ts asked for two pages of commits and for a page of pull requests,
\* with a check before each of them.
C15_Witness ==
    /\ prog = "app" /\ dpc = "done"
    /\ \E i \in 1..(Len(requests) - 2) :
          /\ requests[i] = <<"commits", 1>>
          /\ requests[i + 1] = <<"rate_limit", 0>>
          /\ requests[i + 2] = <<"commits", 2>>
    /\ \E i \in 2..Len(requests) :
          requests[i] = <<"prs", 1>> /\ requests[i - 1] = <<"rate_limit", 0>>

\* C16: in discoverRepos of the CLI a /rate_limit request precedes every
\* search page request.
C16_CliChecksBeforeSearch ==
    (prog = "cli") =>
        \A i \in SearchRequests :
            \E j \in 1..(i - 1) : requests[j][1] = "rate_limit"

\* C17: in discoverRepos of the CLI only the recognized result-window error
\* ends a search loop without an exception; after any other error, a 422 with
\* another message among them, discovery does not go on and returns nothing.
C17_CliOnlyWindowErrorEndsLoop ==
    (prog = "cli") =>
        \A s \in Searches : exitWhy[s] # "unrecognized"

----------------------------------------------------------------------------
(* aggregateAnalysis, and the same block of main in src/app.ts, as a state  *)
(* machine                                                                  *)

AggregateInit ==
    /\ prog \in Programs
    /\ analysesIn \in AnalysisMaps
    /\ agpc = "collect" /\ agIdx = 1
    /\ allLanguages = <<>> /\ allDependencies = <<>> /\ allFileTypes = <<>>
    /\ allEvidence = <<>>
    /\ langPercentages = <<>> /\ topDeps = <<>> /\ topFileTypes = <<>>
    /\ diverse = <<>> /\ evidenceSample = <<>>

\* One round of Object.values(repoAnalyses).forEach.
CollectRepo ==
    /\ agpc = "collect" /\ agIdx <= Len(analysesIn)
    /\ LET a == analysesIn[agIdx][2]
       IN /\ allLanguages' = AddLanguages(allLanguages, a.languages, 1)
          /\ allDependencies' = InsertAll(allDependencies, a.dependencies)
          /\ allFileTypes' = InsertAll(allFileTypes, a.fileTypes)
          /\ allEvidence' = allEvidence \o a.evidence
    /\ agIdx' = agIdx + 1
    /\ UNCHANGED <<agpc, analysesIn, langPercentages, topDeps, topFileTypes,
                   diverse, evidenceSample>>
    /\ UNCHANGED <<prog, besidesAggregate>>

\* The percentages, the two top lists (src/app.ts keeps every file type) and
\* the diverse links before they are sorted.
Summarise ==
    /\ agpc = "collect" /\ agIdx > Len(analysesIn)
    /\ langPercentages' = LangPercentages(allLanguages)
    /\ topDeps' = Take(allDependencies, TopDepsLimit)
    /\ topFileTypes' = IF prog = "cli" THEN Take(allFileTypes, TopFileTypesLimit)
                       ELSE allFileTypes
    /\ diverse' = Diverse(allEvidence)
    /\ agpc' = "sort"
    /\ UNCHANGED <<analysesIn, agIdx, allLanguages, allDependencies, allFileTypes,
                   allEvidence, evidenceSample>>
    /\ UNCHANGED <<prog, besidesAggregate>>

\* diverse.sort(() => Math.random() - 0.5); diverse.slice(0, 20)
SortAndReturn ==
    /\ agpc = "sort"
    /\ \E sorted \in SortOutcomes(diverse) :
        /\ diverse' = sorted
        /\ evidenceSample' = Take(sorted, DiverseLimit)
    /\ agpc' = "done"
    /\ UNCHANGED <<analysesIn, agIdx, allLanguages, allDependencies, allFileTypes,
                   allEvidence, langPercentages, topDeps, topFileTypes>>
    /\ UNCHANGED <<prog, besidesAggregate>>

AggregateNext == CollectRepo \/ Summarise \/ SortAndReturn

----------------------------------------------------------------------------
(* Claims about the aggregation, checked under SpecAggregate *)

\* The bytes of one language in the argument, from repository i on.
RECURSIVE LanguageBytes(_, _)
LanguageBytes(lang, i) ==
    IF i > Len(analysesIn) THEN 0
    ELSE LET langs == analysesIn[i][2].languages
             at == { k \in 1..Len(langs) : langs[k][1] = lang }
         IN (IF at = {} THEN 0 ELSE langs[CHOOSE k \in at : TRUE][2])
                + LanguageBytes(lang, i + 1)

\* The languages named in the argument, and the bytes of all of them.
LanguagesIn ==
    { lang \in {"ts", "py", "go"} :
        \E i \in 1..Len(analysesIn) :
            \E k \in 1..Len(analysesIn[i][2].languages) :
                analysesIn[i][2].languages[k][1] = lang }
GrandTotal == LanguageBytes("ts", 1) + LanguageBytes("py", 1) + LanguageBytes("go", 1)

RECURSIVE SumPct(_)
SumPct(i) == IF i > Len(langPercentages) THEN 0 ELSE langPercentages[i].pct + SumPct(i + 1)

Distance(a, b) == IF a >= b THEN a - b ELSE b - a

\* C12: every language of the argument gets one percentage, which is, to two
\* decimals, 100 * (its bytes over all repositories) / (the bytes of all
\* languages); the percentages add up to 100 within the rounding when the
\* grand total is positive, and all are 0 when it is 0.
C12_LanguagePercentages ==
    (agpc \in {"sort", "done"}) =>
        /\ { langPercentages[i].lang : i \in 1..Len(langPercentages) } = LanguagesIn
        /\ Len(langPercentages) = Cardinality(LanguagesIn)
        /\ \A i \in 1..Len(langPercentages) :
              LET e == langPercentages[i]
              IN IF GrandTotal > 0
                 THEN 2 * Distance(e.pct * GrandTotal, 10000 * LanguageBytes(e.lang, 1))
                          <= GrandTotal
                 ELSE e.pct = 0
        /\ GrandTotal > 0 => 2 * Distance(SumPct(1), 10000) <= Len(langPercentages)

\* Two repositories with 3 languages each, 14 bytes in all: 42.86, 42.86 and
\* 14.29 percent, 100.01 together.
C12_Witness ==
    /\ agpc = "done" /\ Len(analysesIn) = 2
    /\ GrandTotal = 14 /\ Len(langPercentages) = 3
    /\ SumPct(1) = 10001

\* The lists of the argument, one per repository, put one after the other
\* from repository i on.
RECURSIVE Flatten(_, _)
Flatten(lists, i) ==
    IF i > Len(lists) THEN <<>> ELSE lists[i] \o Flatten(lists, i + 1)

DependenciesIn == Flatten([i \in 1..Len(analysesIn) |-> analysesIn[i][2].dependencies], 1)
FileTypesIn == Flatten([i \in 1..Len(analysesIn) |-> analysesIn[i][2].fileTypes], 1)
EvidenceIn == Flatten([i \in 1..Len(analysesIn) |-> analysesIn[i][2].evidence], 1)

\* Where a value stands first in a list.
FirstAt(list, x) == CHOOSE i \in 1..Len(list) : list[i] = x /\ \A j \in 1..(i - 1) : list[j] # x

\* top holds the first limit distinct values of list in the order in which
\* they are first seen, every value once.
FirstSeen(top, list, limit) ==
    LET values == { list[i] : i \in 1..Len(list) }
    IN /\ Len(top) = IF Cardinality(values) < limit THEN Cardinality(values) ELSE limit
       /\ \A i \in 1..Len(top) : top[i] \in values
       /\ \A i, j \in 1..Len(top) :
             i < j => FirstAt(list, top[i]) < FirstAt(list, top[j])
       /\ \A x \in values :
             (\E i \in 1..Len(top) : FirstAt(list, x) < FirstAt(list, top[i]))
                => Contains(top, x)

\* C22: aggregateAnalysis returns as top dependencies the first 80 and as top
\* file types the first 20 distinct values in first-seen order across the
\* repositories in map order, no value twice, and the full evidence list is
\* the per-repository evidence lists one after the other in map order.
C22_TopListsInFirstSeenOrder ==
    (prog = "cli" /\ agpc \in {"sort", "done"}) =>
        /\ FirstSeen(topDeps, DependenciesIn, TopDepsLimit)
        /\ FirstSeen(topFileTypes, FileTypesIn, TopFileTypesLimit)
        /\ allEvidence = EvidenceIn

\* Two repositories that share a dependency and a file type, with 83
\* dependencies and 23 file types in all: both top lists are cut, and both
\* begin with the values of the first repository.
C22_Witness ==
    /\ prog = "cli" /\ agpc = "done" /\ Len(analysesIn) = 2
    /\ Len(allDependencies) = TopDepsLimit + 3 /\ Len(topDeps) = TopDepsLimit
    /\ Len(allFileTypes) = TopFileTypesLimit + 3 /\ Len(topFileTypes) = TopFileTypesLimit
    /\ topDeps[1] = "x" /\ topDeps[2] = "y" /\ topDeps[3] = "1"
    /\ topFileTypes[1] = "py" /\ topFileTypes[2] = "ts" /\ topFileTypes[3] = "1"
    /\ Len(allEvidence) = 2

\* The places of the first limit links of one kind in the evidence list.
FirstPlacesOf(kind, limit) ==
    { i \in 1..Len(allEvidence) :
        /\ Includes(allEvidence[i], kind)
        /\ Cardinality({ j \in 1..(i - 1) : Includes(allEvidence[j], kind) }) < limit }

PullPlaces == FirstPlacesOf("pull", DiversePulls)
CommitPlaces == FirstPlacesOf("commit", DiverseCommits)
TakenFirst == Cardinality(PullPlaces) + Cardinality(CommitPlaces)

\* The places of the links that fill the sample up to 15: links not taken
\* as a pull-request or commit link, in list order.
FillPlaces ==
    LET taken == { allEvidence[i] : i \in PullPlaces \cup CommitPlaces }
        free == { i \in 1..Len(allEvidence) : allEvidence[i] \notin taken }
    IN IF TakenFirst < DiverseFill
       THEN { i \in free : Cardinality({ j \in free : j < i }) < DiverseFill - TakenFirst }
       ELSE {}

\* How often a link stands in a list, and how often it is due in the sample.
Occurrences(list, link) == Cardinality({ i \in 1..Len(list) : list[i] = link })
Due(link) ==
    Cardinality({ i \in PullPlaces : allEvidence[i] = link })
        + Cardinality({ i \in CommitPlaces : allEvidence[i] = link })
        + Cardinality({ i \in FillPlaces : allEvidence[i] = link })

\* C23: the category-balanced sample is, whatever the shuffle did, a
\* permutation of the first up to 8 pull-request links, the first up to 10
\* commit links and, only if these are fewer than 15, links not yet taken in
\* list order until 15 are reached; it holds at most 20 links, all of them
\* members of the evidence list.
C23_DiverseSample ==
    (agpc = "done") =>
        /\ Len(evidenceSample) = TakenFirst + Cardinality(FillPlaces)
        /\ \A i \in 1..Len(evidenceSample) : Contains(allEvidence, evidenceSample[i])
        /\ \A i \in 1..Len(allEvidence) :
              Occurrences(evidenceSample, allEvidence[i]) = Due(allEvidence[i])
        /\ Len(evidenceSample) <= DiverseLimit

\* 16 pull requests and one commit: 8 pull-request links and the commit link
\* are taken first, 6 more pull-request links fill the sample up to 15, and
\* the shuffle put the commit link first.
C23_Witness ==
    /\ agpc = "done"
    /\ Len(allEvidence) = 2 * DiversePulls + 1
    /\ Cardinality(PullPlaces) = DiversePulls /\ Cardinality(CommitPlaces) = 1
    /\ Cardinality(FillPlaces) = DiverseFill - DiversePulls - 1
    /\ Len(evidenceSample) = DiverseFill
    /\ Includes(evidenceSample[1], "commit")

----------------------------------------------------------------------------
(* analyzeRepos, and the per-repository loop of main in src/app.ts, as a   *)
(* state machine, one action per request                                    *)

NotFailed == [commits |-> 0, prs |-> 0]

AnalyzeInit ==
    /\ prog \in Programs
    /\ repos \in { Take(RepoList, n) : n \in 0..MaxAnalyzed }
    /\ ri = 1 /\ npc = "next" /\ apage = 1 /\ pending = <<>> /\ depIdx = 1
    /\ analysis = EmptyAnalysis /\ repoAnalyses = <<>>
    /\ totalCommits = 0 /\ totalPRs = 0
    /\ attempted = {} /\ failedKinds = {} /\ subFailed = NotFailed

\* The sub-analysis sub of the repository at hand begins.
Attempt(sub) == attempted' = attempted \cup { <<repos[ri], sub>> }

\* for (const repo of repos): a fresh analysis.
StartRepo ==
    /\ npc = "next" /\ ri <= Len(repos)
    /\ analysis' = EmptyAnalysis
    /\ subFailed' = NotFailed
    /\ npc' = "languages"
    /\ UNCHANGED <<repos, ri, apage, pending, depIdx, repoAnalyses, totalCommits,
                   totalPRs, attempted, failedKinds>>
    /\ UNCHANGED <<prog, besidesAnalysis>>

Languages ==
    /\ npc = "languages"
    /\ Attempt("languages")
    /\ \/ analysis' = [analysis EXCEPT !.languages = LanguagesData]
          /\ UNCHANGED failedKinds
       \/ \E status \in RepoErrors :
             failedKinds' = failedKinds \cup {"languages"} /\ UNCHANGED analysis
    /\ npc' = "commits" /\ apage' = 1
    /\ UNCHANGED <<repos, ri, pending, depIdx, repoAnalyses, totalCommits,
                   totalPRs, subFailed>>
    /\ UNCHANGED <<prog, besidesAnalysis>>

\* A page with commits: they are counted and then looked up one by one.
CommitsPage ==
    /\ npc = "commits" /\ apage <= MaxRepoPages
    /\ Attempt("commits")
    /\ analysis' = [analysis EXCEPT
                       !.commitCount = @ + Len(CommitsData(repos[ri], apage))]
    /\ pending' = CommitsData(repos[ri], apage)
    /\ npc' = "detail"
    /\ UNCHANGED <<repos, ri, apage, depIdx, repoAnalyses, totalCommits, totalPRs,
                   failedKinds, subFailed>>
    /\ UNCHANGED <<prog, besidesAnalysis>>

\* The empty page ends the commit loop.
CommitsEnd ==
    /\ npc = "commits"
    /\ Attempt("commits")
    /\ npc' = "prs" /\ apage' = 1
    /\ UNCHANGED <<repos, ri, pending, depIdx, analysis, repoAnalyses, totalCommits,
                   totalPRs, failedKinds, subFailed>>
    /\ UNCHANGED <<prog, besidesAnalysis>>

\* An error of a commit page, the empty repository (409) among them: the
\* catch logs it, and the pull requests follow.
CommitsFail ==
    /\ npc = "commits"
    /\ Attempt("commits")
    /\ \E status \in RepoErrors :
          /\ failedKinds' = failedKinds \cup {"commits"}
          /\ subFailed' = [subFailed EXCEPT !.commits = apage]
    /\ npc' = "prs" /\ apage' = 1
    /\ UNCHANGED <<repos, ri, pending, depIdx, analysis, repoAnalyses, totalCommits,
                   totalPRs>>
    /\ UNCHANGED <<prog, besidesAnalysis>>

\* After the last commit of the page: page++, and the next page is asked for.
AfterDetail ==
    /\ pending' = Tail(pending)
    /\ IF Len(pending) = 1
       THEN npc' = "commits" /\ apage' = apage + 1
       ELSE UNCHANGED <<npc, apage>>

DetailOk ==
    /\ npc = "detail"
    /\ Attempt("detail")
    /\ analysis' = [analysis EXCEPT
                       !.fileTypes = AddFileTypes(@, FilesData, 1),
                       !.evidence = Append(@, Head(pending).html_url)]
    /\ AfterDetail
    /\ UNCHANGED <<repos, ri, depIdx, repoAnalyses, totalCommits, totalPRs,
                   failedKinds, subFailed>>
    /\ UNCHANGED <<prog, besidesAnalysis>>

\* The inner catch: the commit is left out, the next one follows.
\* The lookup of a commit fails: the catch is empty, the commit stays
\* counted and its link is not pushed.
DetailFail ==
    /\ npc = "detail"
    /\ attempted' = attempted \cup { <<repos[ri], "detail">>, <<repos[ri], "detail_failed">> }
    /\ \E status \in RepoErrors : failedKinds' = failedKinds \cup {"detail"}
    /\ AfterDetail
    /\ UNCHANGED <<repos, ri, depIdx, analysis, repoAnalyses, totalCommits, totalPRs,
                   subFailed>>
    /\ UNCHANGED <<prog, besidesAnalysis>>

PullsPage ==
    /\ npc = "prs" /\ apage <= MaxRepoPages
    /\ Attempt("prs")
    /\ analysis' = [analysis EXCEPT
                       !.prCount = @ + Len(PullsData(repos[ri], apage)),
                       !.evidence = @ \o HtmlUrls(PullsData(repos[ri], apage))]
    /\ apage' = apage + 1
    /\ UNCHANGED <<repos, ri, npc, pending, depIdx, repoAnalyses, totalCommits,
                   totalPRs, failedKinds, subFailed>>
    /\ UNCHANGED <<prog, besidesAnalysis>>

PullsEnd ==
    /\ npc = "prs"
    /\ Attempt("prs")
    /\ npc' = "deps" /\ depIdx' = 1
    /\ UNCHANGED <<repos, ri, apage, pending, analysis, repoAnalyses, totalCommits,
                   totalPRs, failedKinds, subFailed>>
    /\ UNCHANGED <<prog, besidesAnalysis>>

\* An error of a pull-request page: caught in analyzeRepos; in src/app.ts it
\* leaves the loop and main.
PullsFail ==
    /\ npc = "prs"
    /\ Attempt("prs")
    /\ \E status \in RepoErrors :
          /\ failedKinds' = failedKinds \cup {"prs"}
          /\ subFailed' = [subFailed EXCEPT !.prs = apage]
    /\ IF PullsErrorEscapes(prog)
       THEN npc' = "aborted" /\ UNCHANGED depIdx
       ELSE npc' = "deps" /\ depIdx' = 1
    /\ UNCHANGED <<repos, ri, apage, pending, analysis, repoAnalyses, totalCommits,
                   totalPRs>>
    /\ UNCHANGED <<prog, besidesAnalysis>>

\* After a manifest: the next one, or the statements after the loop.
AfterManifest ==
    /\ depIdx' = depIdx + 1
    /\ npc' = IF depIdx = Len(DepFiles) THEN "store" ELSE "deps"

ManifestOk ==
    /\ npc = "deps"
    /\ Attempt(DepFiles[depIdx])
    /\ analysis' = [analysis EXCEPT
                       !.dependencies = InsertAll(@, DepsIn(DepFiles[depIdx]))]
    /\ AfterManifest
    /\ UNCHANGED <<repos, ri, apage, pending, repoAnalyses, totalCommits, totalPRs,
                   failedKinds, subFailed>>
    /\ UNCHANGED <<prog, besidesAnalysis>>

\* The file is missing, or its content does not parse.
ManifestFail ==
    /\ npc = "deps"
    /\ Attempt(DepFiles[depIdx])
    /\ \E status \in RepoErrors : failedKinds' = failedKinds \cup {"manifest"}
    /\ AfterManifest
    /\ UNCHANGED <<repos, ri, apage, pending, analysis, repoAnalyses, totalCommits,
                   totalPRs, subFailed>>
    /\ UNCHANGED <<prog, besidesAnalysis>>

\* repoAnalyses[repo] = analysis; totalCommits += ...; totalPRs += ...
StoreRepo ==
    /\ npc = "store"
    /\ repoAnalyses' = MapSet(repoAnalyses, repos[ri], analysis)
    /\ totalCommits' = AddCount(totalCommits, analysis.commitCount)
    /\ totalPRs' = AddCount(totalPRs, analysis.prCount)
    /\ ri' = ri + 1
    /\ npc' = "next"
    /\ UNCHANGED <<repos, apage, pending, depIdx, analysis, attempted, failedKinds,
                   subFailed>>
    /\ UNCHANGED <<prog, besidesAnalysis>>

\* return { repoAnalyses, totalCommits, totalPRs }
ReturnAnalyses ==
    /\ npc = "next" /\ ri > Len(repos)
    /\ npc' = "returned"
    /\ UNCHANGED <<repos, ri, apage, pending, depIdx, analysis, repoAnalyses,
                   totalCommits, totalPRs, attempted, failedKinds, subFailed>>
    /\ UNCHANGED <<prog, besidesAnalysis>>

AnalyzeNext ==
    \/ StartRepo \/ Languages
    \/ CommitsPage \/ CommitsEnd \/ CommitsFail \/ DetailOk \/ DetailFail
    \/ PullsPage \/ PullsEnd \/ PullsFail
    \/ ManifestOk \/ ManifestFail
    \/ StoreRepo \/ ReturnAnalyses

----------------------------------------------------------------------------
(* Claims about the per-repository analysis, checked under SpecAnalyze *)

\* The sub-analyses every repository goes through.
EverySub == {"languages", "commits", "prs", "package.json", "requirements.txt", "pom.xml"}

EveryKind == {"languages", "commits", "detail", "prs", "manifest"}

\* C13: in analyzeRepos no failure of a sub-analysis aborts the call: when it
\* returns, every sub-analysis of every repository of the list was attempted
\* and a RepoAnalysis is stored for every repository, in list order.
C13_FailuresNeverAbort ==
    (prog = "cli") =>
        /\ npc # "aborted"
        /\ (npc = "returned") =>
              /\ [i \in 1..Len(repoAnalyses) |-> repoAnalyses[i][1]] = repos
              /\ \A i \in 1..Len(repos) : \A sub \in EverySub :
                    <<repos[i], sub>> \in attempted

\* analyzeRepos returned for two repositories after a failure of every kind,
\* a commit-detail lookup among them.
C13_Witness ==
    /\ prog = "cli" /\ npc = "returned" /\ Len(repos) = 2
    /\ failedKinds = EveryKind
    /\ Len(repoAnalyses) = 2
    /\ <<"r2", "pom.xml">> \in attempted

\* C19: in src/app.ts an error of the pull-request fetch of a repository does
\* not abort the run.
C19_PullsErrorDoesNotAbort ==
    (prog = "app" /\ subFailed.prs > 0) => npc # "aborted"

\* The links of one kind in the evidence of the repository at hand.
EvidenceOf(kind) ==
    LET OfKind(l) == Includes(l, kind) IN SelectSeq(analysis.evidence, OfKind)

\* C20: in analyzeRepos a commit sub-analysis that failed on some page leaves
\* commitCount 0, no commit link and no file extension in the RepoAnalysis,
\* and a pull-request sub-analysis that failed on some page leaves prCount 0
\* and no pull-request link.
C20_FailedSubAnalysisIsEmpty ==
    (prog = "cli") =>
        /\ (subFailed.commits > 0) =>
              /\ analysis.commitCount = 0
              /\ EvidenceOf("commit") = <<>>
              /\ analysis.fileTypes = <<>>
        /\ (subFailed.prs > 0) =>
              /\ analysis.prCount = 0
              /\ EvidenceOf("pull") = <<>>

\* The sums of commitCount and of prCount over the stored analyses from
\* entry i on.
RECURSIVE SumCommitCounts(_, _)
SumCommitCounts(stored, i) ==
    IF i > Len(stored) THEN 0
    ELSE stored[i][2].commitCount + SumCommitCounts(stored, i + 1)

RECURSIVE SumPrCounts(_, _)
SumPrCounts(stored, i) ==
    IF i > Len(stored) THEN 0
    ELSE stored[i][2].prCount + SumPrCounts(stored, i + 1)

\* The links of one kind in an evidence list.
LinksOfKind(evidence, kind) ==
    LET OfKind(l) == Includes(l, kind) IN SelectSeq(evidence, OfKind)

\* C21: after analyzeRepos returns, totalCommits is the sum of commitCount
\* and totalPRs the sum of prCount over the stored analyses; in every
\* stored analysis the pull-request links are as many as prCount, the commit
\* links at most as many as commitCount and exactly as many when no
\* commit-detail lookup of the repository failed, and every commit link
\* stands before every pull-request link.
C21_TotalsAndEvidenceCounts ==
    (prog = "cli" /\ npc = "returned") =>
        /\ totalCommits = SumCommitCounts(repoAnalyses, 1)
        /\ totalPRs = SumPrCounts(repoAnalyses, 1)
        /\ \A i \in 1..Len(repoAnalyses) :
              LET name == repoAnalyses[i][1]
                  stored == repoAnalyses[i][2]
                  ev == stored.evidence
              IN /\ Len(LinksOfKind(ev, "pull")) = stored.prCount
                 /\ Len(LinksOfKind(ev, "commit")) <= stored.commitCount
                 /\ (Len(LinksOfKind(ev, "commit")) = stored.commitCount)
                        <=> (<<name, "detail_failed">> \notin attempted)
                 /\ \A j, k \in 1..Len(ev) :
                        (Includes(ev[j], "pull") /\ Includes(ev[k], "commit")) => k < j

\* analyzeRepos returned for two repositories with a commit and a pull
\* request each; the commit lookup of the first failed, that of the second
\* did not.
C21_Witness ==
    /\ prog = "cli" /\ npc = "returned" /\ Len(repoAnalyses) = 2
    /\ totalCommits = 2 /\ totalPRs = 2
    /\ <<"r1", "detail_failed">> \in attempted
    /\ <<"r2", "detail_failed">> \notin attempted
    /\ Len(repoAnalyses[1][2].evidence) = 1
    /\ Len(repoAnalyses[2][2].evidence) = 2

----------------------------------------------------------------------------
(* loadOrComputeAnalysis as a state machine; discoverRepos and analyzeRepos *)
(* are taken by their outcomes                                              *)

NoOutcomeYet == CHOOSE o \in AnalysisOutcomes : o.totalCommits = 0

CacheInit ==
    /\ prog = "cli"
    /\ cacheAtStart \in CacheFiles
    /\ cacheFile = cacheAtStart
    /\ lpc = "read"
    /\ reposCount = 0 /\ analysed = NoOutcomeYet /\ returned = Undefined
    /\ discoveryRuns = 0 /\ analysisRuns = 0 /\ cacheWrites = <<>>

\* The try of lines 276-280 returns what JSON.parse made of the file.
CacheHit ==
    /\ lpc = "read" /\ CacheUsable(cacheFile)
    /\ returned' = JSONparse(cacheFile.text).val
    /\ lpc' = "returned"
    /\ UNCHANGED <<cacheAtStart, cacheFile, reposCount, analysed, discoveryRuns,
                   analysisRuns, cacheWrites>>
    /\ UNCHANGED <<prog, besidesCache>>

\* readFile, JSON.parse or cached.timestamp threw: the catch logs it.
CacheMiss ==
    /\ lpc = "read" /\ ~CacheUsable(cacheFile)
    /\ lpc' = "discover"
    /\ UNCHANGED <<cacheAtStart, cacheFile, reposCount, analysed, returned,
                   discoveryRuns, analysisRuns, cacheWrites>>
    /\ UNCHANGED <<prog, besidesCache>>

\* await discoverRepos(...): a repository set, or its exception.
RunDiscovery ==
    /\ lpc = "discover"
    /\ discoveryRuns' = discoveryRuns + 1
    /\ \/ \E n \in DiscoverySizes : reposCount' = n /\ lpc' = "analyze"
       \/ lpc' = "threw" /\ UNCHANGED reposCount
    /\ UNCHANGED <<cacheAtStart, cacheFile, analysed, returned, analysisRuns,
                   cacheWrites>>
    /\ UNCHANGED <<prog, besidesCache>>

\* await analyzeRepos(...), which returns whatever fails inside it.
RunAnalysis ==
    /\ lpc = "analyze"
    /\ analysisRuns' = analysisRuns + 1
    /\ \E o \in AnalysisOutcomes : analysed' = o
    /\ lpc' = "write"
    /\ UNCHANGED <<cacheAtStart, cacheFile, reposCount, returned, discoveryRuns,
                   cacheWrites>>
    /\ UNCHANGED <<prog, besidesCache>>

\* cacheData is built, written with fs.writeFile and returned; when the
\* write fails its exception leaves the function.
WriteAndReturn ==
    /\ lpc = "write"
    /\ \/ /\ cacheFile' = FileWith(Serialize(CacheData(reposCount, analysed)))
          /\ cacheWrites' = Append(cacheWrites, cacheFile'.text)
          /\ returned' = CacheData(reposCount, analysed)
          /\ lpc' = "returned"
       \/ /\ lpc' = "threw"
          /\ UNCHANGED <<cacheFile, cacheWrites, returned>>
    /\ UNCHANGED <<cacheAtStart, reposCount, analysed, discoveryRuns, analysisRuns>>
    /\ UNCHANGED <<prog, besidesCache>>

CacheNext == CacheHit \/ CacheMiss \/ RunDiscovery \/ RunAnalysis \/ WriteAndReturn

----------------------------------------------------------------------------
(* Claims about the cache, checked under SpecCache *)

\* What the run did beyond reading the cache file.
NothingComputed == discoveryRuns = 0 /\ analysisRuns = 0 /\ cacheWrites = <<>>

\* Discovery and analysis ran once, and what was returned is what was
\* written, once, to the cache file before.
ComputedOnceAndWritten ==
    /\ discoveryRuns = 1 /\ analysisRuns = 1
    /\ Len(cacheWrites) = 1
    /\ JSONparse(cacheWrites[1]).ok
    /\ JSONparse(cacheWrites[1]).val = returned
    /\ cacheFile = FileWith(cacheWrites[1])

----------------------------------------------------------------------------
(* Discovery against a source that counts its quota.  Every granted request *)
(* takes one unit from the bucket of its endpoint and carries what is left  *)
(* and the reset epoch in its x-ratelimit headers; a request to an empty    *)
(* bucket is rejected with status 403; a bucket is refilled when its reset  *)
(* epoch is reached.  The clock moves by the sleeps of the two checks only. *)

QuotaLimit == 12
QuotaWindow == 3

\* The listing loop has no bound of its own: the source stops sending items
\* after this many pages, which is more than a search loop may ask for.
MaxQuotaListPages == 11

Buckets == {"core", "search"}

\* The listing draws on the core quota, the two searches on the search quota.
Bucket(src) == IF src = "list" THEN "core" ELSE "search"

Refilled(b) == now >= resetAt[b]
QuotaNow(b) == IF Refilled(b) THEN QuotaLimit ELSE quotaLeft[b]
ResetNow(b) == IF Refilled(b) THEN now + QuotaWindow ELSE resetAt[b]

Granted(b) == QuotaNow(b) > 0

Spend(b) ==
    /\ quotaLeft' = [quotaLeft EXCEPT ![b] = QuotaNow(b) - 1]
    /\ resetAt' = [resetAt EXCEPT ![b] = ResetNow(b)]

\* x-ratelimit-remaining and x-ratelimit-reset of a granted response.
GrantedHeaders(b) ==
    [remaining |-> Header(QuotaNow(b) - 1), reset |-> Header(ResetNow(b))]

\* GET /rate_limit does not count against a quota: its headers tell the
\* core quota, resources.search of its body the search quota.
RateLimitHeaders ==
    [remaining |-> Header(QuotaNow("core")), reset |-> Header(ResetNow("core"))]
RateLimitSearch ==
    [remaining |-> QuotaNow("search"), reset |-> ResetNow("search")]

\* The rejection of a request to an empty bucket.
QuotaError == [status |-> 403, window |-> FALSE]

\* The page of items a granted request returns.
QuotaPage == << <<"a", "/", "b">> >>

QuotaInit ==
    /\ prog \in Programs
    /\ now = 1
    /\ quotaLeft \in [Buckets -> 0..QuotaLimit]
    /\ resetAt = [b \in Buckets |-> 1 + QuotaWindow]
    /\ rejected = {}
    /\ dpc = "fetch" /\ source = "list" /\ page = 1
    /\ reposSet = {}
    /\ commitSearchLimited = FALSE /\ prSearchLimited = FALSE
    /\ fetched = {} /\ requests = <<>> /\ exitWhy = NoExit

QuotaListPage ==
    /\ dpc = "fetch" /\ source = "list" /\ page <= MaxQuotaListPages
    /\ Granted("core") /\ Spend("core")
    /\ TakePage(QuotaPage, GrantedHeaders("core"))
    /\ UNCHANGED <<dpc, source, exitWhy, commitSearchLimited, prSearchLimited>>
    /\ UNCHANGED <<prog, coreCheck, searchCheck, rejected, besidesQuota>>

QuotaListEnd ==
    /\ dpc = "fetch" /\ source = "list"
    /\ Granted("core") /\ Spend("core")
    /\ requests' = Append(requests, <<source, page>>)
    /\ now' = Delivered(GrantedHeaders("core"))
    /\ Leave("empty")
    /\ UNCHANGED <<reposSet, fetched, commitSearchLimited, prSearchLimited>>
    /\ UNCHANGED <<prog, coreCheck, searchCheck, rejected, besidesQuota>>

\* The listing loop has no try: the rejection ends the run.
QuotaListRejected ==
    /\ dpc = "fetch" /\ source = "list"
    /\ ~Granted("core")
    /\ requests' = Append(requests, <<source, page>>)
    /\ rejected' = rejected \cup {<<source, page>>}
    /\ Fail
    /\ UNCHANGED <<now, reposSet, fetched, commitSearchLimited, prSearchLimited>>
    /\ UNCHANGED <<prog, coreCheck, searchCheck, quotaLeft, resetAt, besidesQuota>>

QuotaSearchCap ==
    /\ dpc = "fetch" /\ source \in Searches /\ OverCap(page)
    /\ SetLimited
    /\ Leave("cap")
    /\ UNCHANGED <<now, reposSet, fetched, requests>>
    /\ UNCHANGED <<prog, coreCheck, searchCheck, qvars, besidesQuota>>

QuotaSearchPage ==
    /\ dpc = "fetch" /\ source \in Searches /\ ~OverCap(page)
    /\ Granted("search") /\ Spend("search")
    /\ TakePage(QuotaPage, GrantedHeaders("search"))
    /\ dpc' = AfterPage(prog)
    /\ UNCHANGED <<source, exitWhy, commitSearchLimited, prSearchLimited>>
    /\ UNCHANGED <<prog, coreCheck, searchCheck, rejected, besidesQuota>>

QuotaSearchEnd ==
    /\ dpc = "fetch" /\ source \in Searches /\ ~OverCap(page)
    /\ Granted("search") /\ Spend("search")
    /\ requests' = Append(requests, <<source, page>>)
    /\ now' = Delivered(GrantedHeaders("search"))
    /\ Leave("empty")
    /\ UNCHANGED <<reposSet, fetched, commitSearchLimited, prSearchLimited>>
    /\ UNCHANGED <<prog, coreCheck, searchCheck, rejected, besidesQuota>>

\* The rejection arrives in the catch of the search loop, which knows
\* status 422 only.
QuotaSearchRejected ==
    /\ dpc = "fetch" /\ source \in Searches /\ ~OverCap(page)
    /\ ~Granted("search")
    /\ requests' = Append(requests, <<source, page>>)
    /\ rejected' = rejected \cup {<<source, page>>}
    /\ Caught(QuotaError)
    /\ UNCHANGED <<now, reposSet, fetched>>
    /\ UNCHANGED <<prog, coreCheck, searchCheck, quotaLeft, resetAt, besidesQuota>>

\* await checkSearchRateLimit(); page = 1, before each search loop.
QuotaCheckBeforeLoop ==
    /\ dpc = "check0"
    /\ requests' = Append(requests, <<"rate_limit", 0>>)
    /\ now' = Checked(RateLimitHeaders, RateLimitSearch)
    /\ dpc' = "fetch" /\ page' = 1
    /\ UNCHANGED <<source, exitWhy, reposSet, fetched, commitSearchLimited, prSearchLimited>>
    /\ UNCHANGED <<prog, coreCheck, searchCheck, qvars, besidesQuota>>

\* await checkSearchRateLimit() after page++.
QuotaCheckAfterPage ==
    /\ dpc = "check"
    /\ requests' = Append(requests, <<"rate_limit", 0>>)
    /\ now' = Checked(RateLimitHeaders, RateLimitSearch)
    /\ dpc' = "fetch"
    /\ UNCHANGED <<source, page, exitWhy, reposSet, fetched, commitSearchLimited, prSearchLimited>>
    /\ UNCHANGED <<prog, coreCheck, searchCheck, qvars, besidesQuota>>

QuotaNext ==
    \/ QuotaListPage \/ QuotaListEnd \/ QuotaListRejected
    \/ QuotaSearchCap \/ QuotaSearchPage \/ QuotaSearchEnd \/ QuotaSearchRejected
    \/ QuotaCheckBeforeLoop \/ QuotaCheckAfterPage

----------------------------------------------------------------------------
(* Claims about quota exhaustion, checked under SpecQuota *)

\* C18: quota exhaustion is handled by waiting and never surfaces as an
\* error: the source rejects no request of discovery for lack of quota, and
\* no discovery run ends in an error.
C18_QuotaNeverSurfaces ==
    rejected = {} /\ dpc # "failed"

\* The pages asked of source s, in the order of the requests.
PagesOf(s) ==
    LET Asked(r) == r[1] = s
        asked == SelectSeq(requests, Asked)
    IN [i \in 1..Len(asked) |-> asked[i][2]]

\* s is asked for pages 1, 2, ..., k in this order.
Consecutive(s) == PagesOf(s) = [i \in 1..Len(PagesOf(s)) |-> i]

PagingInOrder ==
    /\ \A s \in Searches : Consecutive(s) /\ Len(PagesOf(s)) <= 10
    /\ Consecutive("list")
    /\ exitWhy.list \in {"running", "empty"}
    /\ source # "list" => exitWhy.list = "empty"

\* A request whose answer was no page of items (the page number was not
\* advanced) ends its loop or the run, and a loop that was left asks for
\* nothing more.
StopsAtFirstEmptyPage ==
    \A s \in Searches \cup {"list"} :
        /\ (PagesOf(s)' # PagesOf(s) /\ page' # page + 1) =>
              (exitWhy'[s] # "running" \/ dpc' = "failed")
        /\ exitWhy[s] # "running" => PagesOf(s)' = PagesOf(s)

\* The listing went on to page 12, where it got an empty page; the commit
\* search got items on all of its 10 pages and stopped at the cap; the PR
\* search stopped at the empty page 3.
C29_Witness ==
    /\ dpc = "done"
    /\ PagesOf("list") = [i \in 1..12 |-> i] /\ exitWhy.list = "empty"
    /\ Len(PagesOf("commits")) = 10 /\ exitWhy.commits = "cap"
    /\ Len(PagesOf("prs")) = 3 /\ exitWhy.prs = "empty"

----------------------------------------------------------------------------
(* The client of createGitHubClient under its caller.  A request is sent,   *)
(* answered by the network some time later, and a fulfilled response passes *)
(* the interceptor, which may sleep, before the awaiting caller gets it.    *)

\* The requests analyzeRepos makes for a repository with one commit and one
\* dependency file, each of them awaited.
ClientCalls == <<"languages", "commits", "detail", "pulls", "contents">>

MaxClientClock == 6

NoHold(wait) == 0

\* await sleep(wait): the interceptor goes on after wait has passed.
HoldFor(wait) == wait

ClientInit ==
    /\ prog = "cli"
    /\ now = 0 /\ coreCheck = NoCheck /\ searchCheck = NoCheck
    /\ callAt = 1 /\ awaiting = 0 /\ inFlight = {} /\ sleeping = {}
    /\ sentAt = <<>> /\ got = <<>>

\* The response of request req, which arrived at the time arrived and for
\* which the interceptor computed wait, reaches the caller now.
Deliver(req, arrived, wait) ==
    /\ got' = Append(got, [req |-> req, arrived |-> arrived, wait |-> wait, at |-> now])
    /\ awaiting' = IF awaiting = req THEN 0 ELSE awaiting

\* await github.get(...): the caller sends a request and is suspended until
\* its promise settles.
ClientSend ==
    /\ awaiting = 0 /\ callAt <= Len(ClientCalls)
    /\ sentAt' = Append(sentAt, now)
    /\ inFlight' = inFlight \cup {Len(sentAt) + 1}
    /\ awaiting' = Len(sentAt) + 1
    /\ callAt' = callAt + 1
    /\ UNCHANGED <<now, sleeping, got>>
    /\ UNCHANGED <<prog, coreCheck, searchCheck, besidesClient>>

\* A fulfilled response arrives and runs the interceptor of lines 207-219.
ClientFulfilled ==
    \E r \in inFlight, h \in DiscoveryHeaders :
        LET wait == InterceptorWait(HeaderInt(h.remaining), HeaderInt(h.reset), now)
        IN /\ inFlight' = inFlight \ {r}
           /\ IF wait > 0 /\ HoldFor(wait) > 0
              THEN /\ sleeping' = sleeping \cup
                         {[req |-> r, arrived |-> now, wait |-> wait,
                           until |-> now + HoldFor(wait)]}
                   /\ UNCHANGED <<awaiting, got>>
              ELSE Deliver(r, now, wait) /\ UNCHANGED sleeping
           /\ UNCHANGED <<now, callAt, sentAt>>
           /\ UNCHANGED <<prog, coreCheck, searchCheck, besidesClient>>

\* An error response does not pass the interceptor, which was registered for
\* fulfilled responses only: the rejection reaches the caller at once.
ClientRejected ==
    \E r \in inFlight :
        /\ inFlight' = inFlight \ {r}
        /\ Deliver(r, now, 0)
        /\ UNCHANGED <<now, callAt, sleeping, sentAt>>
        /\ UNCHANGED <<prog, coreCheck, searchCheck, besidesClient>>

\* The timer of sleep(wait) fired: return res.
ClientWake ==
    \E s \in sleeping :
        /\ now >= s.until
        /\ sleeping' = sleeping \ {s}
        /\ Deliver(s.req, s.arrived, s.wait)
        /\ UNCHANGED <<now, callAt, inFlight, sentAt>>
        /\ UNCHANGED <<prog, coreCheck, searchCheck, besidesClient>>

ClientTick ==
    /\ now < MaxClientClock
    /\ now' = now + 1
    /\ UNCHANGED tvars
    /\ UNCHANGED <<prog, coreCheck, searchCheck, besidesClient>>

ClientNext ==
    ClientSend \/ ClientFulfilled \/ ClientRejected \/ ClientWake \/ ClientTick

----------------------------------------------------------------------------
(* Claims about the client, checked under SpecClient *)

\* The response to request i reached the caller, and when.
GotAt(i) == { g.at : g \in { got[k] : k \in { k \in 1..Len(got) : got[k].req = i } } }

\* C30: the network operations of a run are sequential: at most one request
\* is in flight at any time, and when a response makes the interceptor
\* compute a positive wait, the response does not reach the caller and no
\* further request is sent through the client before the wait has passed.
C30_OneRequestAtATime ==
    /\ Cardinality(inFlight) + Cardinality(sleeping) <= 1
    /\ \A s \in sleeping :
          /\ awaiting = s.req /\ GotAt(s.req) = {}
          /\ Len(sentAt) = s.req
    /\ \A k \in 1..Len(got) : got[k].at >= got[k].arrived + got[k].wait
    /\ \A j \in 2..Len(sentAt) :
          \E t \in GotAt(j - 1) : t <= sentAt[j]

\* The response to the first request was held for a wait of five seconds and
\* reached the caller when they had passed; the second request was sent
\* after that.
C30_Witness ==
    /\ Len(got) >= 1 /\ got[1].req = 1
    /\ got[1].arrived = 0 /\ got[1].wait = 5 /\ got[1].at = 5
    /\ Len(sentAt) >= 2 /\ sentAt[2] >= 5

----------------------------------------------------------------------------
(* Specifications: each runs one component and leaves the others at rest *)

ParseIdle ==
    /\ raw = <<>> /\ allSkills = <<>> /\ entries = <<>>
    /\ variant = "other" /\ ppc = "done" /\ stages = <<>> /\ outcome = NoOutcome

SampleIdle ==
    /\ allLinks = <<>> /\ maxLinks = 0 /\ spc = "done" /\ selected = <<>>
    /\ remaining = <<>> /\ shuffleAt = 0 /\ sample = <<>>
    /\ picked = 0 /\ chosen = <<>>

RateIdle == now = 0 /\ coreCheck = NoCheck /\ searchCheck = NoCheck

DiscoverIdle ==
    /\ dpc = "done" /\ source = "list" /\ page = 1 /\ reposSet = {}
    /\ commitSearchLimited = FALSE /\ prSearchLimited = FALSE
    /\ fetched = {} /\ requests = <<>> /\ exitWhy = NoExit

AggregateIdle ==
    /\ agpc = "done" /\ analysesIn = <<>> /\ agIdx = 1
    /\ allLanguages = <<>> /\ allDependencies = <<>> /\ allFileTypes = <<>>
    /\ allEvidence = <<>>
    /\ langPercentages = <<>> /\ topDeps = <<>> /\ topFileTypes = <<>>
    /\ diverse = <<>> /\ evidenceSample = <<>>

AnalyzeIdle ==
    /\ repos = <<>> /\ ri = 1 /\ npc = "returned" /\ apage = 1 /\ pending = <<>>
    /\ depIdx = 1 /\ analysis = EmptyAnalysis /\ repoAnalyses = <<>>
    /\ totalCommits = 0 /\ totalPRs = 0
    /\ attempted = {} /\ failedKinds = {} /\ subFailed = NotFailed

CacheIdle ==
    /\ cacheAtStart = NoFile /\ cacheFile = NoFile /\ lpc = "returned"
    /\ reposCount = 0 /\ analysed = NoOutcomeYet /\ returned = Undefined
    /\ discoveryRuns = 0 /\ analysisRuns = 0 /\ cacheWrites = <<>>

QuotaIdle ==
    /\ quotaLeft = [b \in Buckets |-> 0] /\ resetAt = [b \in Buckets |-> 0]
    /\ rejected = {}

\* Every component but the one a specification runs is at rest.
ClientIdle ==
    /\ callAt = 1 /\ awaiting = 0 /\ inFlight = {} /\ sleeping = {}
    /\ sentAt = <<>> /\ got = <<>>

OthersIdle(running) ==
    /\ running = "parse" \/ ParseIdle
    /\ running = "sample" \/ SampleIdle
    /\ running \in {"rate", "discover", "quota", "client"} \/ RateIdle
    /\ running \in {"discover", "quota"} \/ DiscoverIdle
    /\ running = "quota" \/ QuotaIdle
    /\ running = "client" \/ ClientIdle
    /\ running = "aggregate" \/ AggregateIdle
    /\ running = "analyze" \/ AnalyzeIdle
    /\ running = "cache" \/ CacheIdle

vars == <<prog, pvars, svars, rvars, dvars, avars, nvars, cvars, qvars, tvars>>

InitParse == ParseInit /\ OthersIdle("parse")
InitSample == SampleInit /\ prog = "cli" /\ OthersIdle("sample")
InitRate == RateInit /\ OthersIdle("rate")
InitDiscover ==
    DiscoverInit /\ coreCheck = NoCheck /\ searchCheck = NoCheck /\ OthersIdle("discover")
InitAggregate == AggregateInit /\ OthersIdle("aggregate")
InitAnalyze == AnalyzeInit /\ OthersIdle("analyze")
InitCache == CacheInit /\ OthersIdle("cache")
InitQuota ==
    QuotaInit /\ coreCheck = NoCheck /\ searchCheck = NoCheck /\ OthersIdle("quota")
InitClient == ClientInit /\ OthersIdle("client")

SearchLoopEnds ==
    \A s \in Searches :
        (source = s) ~> (exitWhy[s] # "running" \/ dpc = "failed")

\* C29: each search loop of discovery asks for pages 1, 2, ..., k in this
\* order, no page twice, stops at the first empty page and ends after at
\* most 10 page requests even if every page it gets holds items; the
\* listing loop asks for its pages in the same order, has no such bound and
\* is left only when the source sent an empty page.
C29_SearchPagingBounded ==
    /\ []PagingInOrder
    /\ [][StopsAtFirstEmptyPage]_vars
    /\ SearchLoopEnds

SpecParse == InitParse /\ [][ParseNext]_vars
SpecSample == InitSample /\ [][SampleNext]_vars
SpecRate == InitRate /\ [][RateNext]_vars
SpecDiscover == InitDiscover /\ [][DiscoverNext]_vars
SpecAggregate == InitAggregate /\ [][AggregateNext]_vars
SpecAnalyze == InitAnalyze /\ [][AnalyzeNext]_vars
SpecCache == InitCache /\ [][CacheNext]_vars
SpecQuota == InitQuota /\ [][QuotaNext]_vars
SpecClient == InitClient /\ [][ClientNext]_vars

\* Discovery is one sequential function: it goes on whenever the request it
\* awaits has settled, and the source settles every request.
SpecQuotaFair == InitQuota /\ [][QuotaNext]_vars /\ WF_vars(QuotaNext)

====
